---- MODULE Spec2Model ----
(***************************************************************************)
(* A model of the OPAQUE aPAKE library (registration, 3DH login, server    *)
(* AKE state).  Byte strings are sequences of chunks <<term, lo, hi>>: the *)
(* bytes lo..hi of the output of a symbolic term.  Hash, KDF and MAC are   *)
(* free constructors (two outputs are equal exactly when their inputs      *)
(* are); the group is the additive group of integers modulo a prime.       *)
(***************************************************************************)
EXTENDS Integers, Sequences, FiniteSets, TLC

VARIABLES conf, cli, srv, net, db, out, calc

vars == <<conf, cli, srv, net, db, out, calc>>

(***************************************************************************)
(* Bounds of the model.                                                    *)
(***************************************************************************)
\* Number of distinct passwords a client may type.
NumPasswords == 2
\* Number of Server.Finish calls made on one Server instance.
MaxFinish == 2
\* Which odd prime is the order of the group (3: the integers modulo 7).
GroupSize == 3

(***************************************************************************)
(* Byte strings.                                                           *)
(***************************************************************************)
Nil == <<>>

None == <<>>

Some(m) == <<m>>

\* The element of a one-element set.  The({e : x \in {v}}) is e where x is the
\* value of v, computed once.
The(S) == CHOOSE x \in S : TRUE

IsZero(t) == t[1] = "zero"

\* n bytes: the whole output of term t when n is its size, a prefix otherwise.
Bytes(t, n) == IF n <= 0 THEN <<>> ELSE << <<t, 1, n>> >>

ChunkLen(c) == c[3] - c[2] + 1

RECURSIVE BLen(_)
BLen(b) == IF Len(b) = 0 THEN 0 ELSE ChunkLen(b[1]) + BLen(Tail(b))

\* make([]byte, n)
Zeros(n) == Bytes(<<"zero">>, n)

\* Concatenation; adjacent chunks of one term are merged, so that equal byte
\* strings have one representation.
Concat(a, b) ==
    IF Len(a) = 0 THEN b
    ELSE IF Len(b) = 0 THEN a
    ELSE LET x == a[Len(a)]
             y == b[1]
         IN  IF x[1] = y[1] /\ (IsZero(x[1]) \/ x[3] + 1 = y[2])
             THEN SubSeq(a, 1, Len(a) - 1)
                    \o << <<x[1], x[2], x[3] + ChunkLen(y)>> >> \o Tail(b)
             ELSE a \o b

Concat3(a, b, c) == Concat(Concat(a, b), c)

RECURSIVE Concatenate(_)
Concatenate(parts) ==
    IF Len(parts) = 0 THEN <<>>
    ELSE Concat(parts[1], Concatenate(Tail(parts)))

\* b[:n]
RECURSIVE Take(_, _)
Take(b, n) ==
    IF n <= 0 \/ Len(b) = 0 THEN <<>>
    ELSE LET c == b[1]
         IN  IF n >= ChunkLen(c)
             THEN Concat(<<c>>, Take(Tail(b), n - ChunkLen(c)))
             ELSE << <<c[1], c[2], c[2] + n - 1>> >>

\* b[n:]
RECURSIVE Drop(_, _)
Drop(b, n) ==
    IF n <= 0 \/ Len(b) = 0 THEN b
    ELSE LET c == b[1]
         IN  IF n >= ChunkLen(c)
             THEN Drop(Tail(b), n - ChunkLen(c))
             ELSE IF IsZero(c[1])
                  THEN << <<c[1], 1, ChunkLen(c) - n>> >> \o Tail(b)
                  ELSE << <<c[1], c[2] + n, c[3]>> >> \o Tail(b)

\* b[i:j] in Go's half-open notation.
Slice(b, i, j) == Take(Drop(b, i), j - i)

\* An ASCII string constant.
Str(s) == Bytes(<<"str", s>>, Len(s))

\* b[0] = ^b[0]
FlipByte0(b) ==
    IF Len(b) = 0 THEN b
    ELSE LET h == Take(b, 1)
         IN  IF Len(h) = 1 /\ h[1][1][1] = "not"
             THEN Concat(h[1][1][2], Drop(b, 1))
             ELSE Concat(Bytes(<<"not", h>>, 1), Drop(b, 1))

\* internal.Xor: a XOR b for strings of one length; XOR-ing twice with the same
\* pad gives the input back.
Xor(a, b) ==
    IF Len(a) = 1 /\ a[1][1][1] = "xor" /\ a[1][2] = 1
       /\ a[1][3] = BLen(a[1][1][2]) /\ a[1][1][3] = b
    THEN a[1][1][2]
    ELSE Bytes(<<"xor", a, b>>, BLen(a))

(***************************************************************************)
(* Errors: a Go error is the chain of its messages, outermost wrapper      *)
(* first (fmt.Errorf("...: %w", err) prepends one).                        *)
(***************************************************************************)
NoErr == <<>>

Wrap(prefix, err) == <<prefix>> \o err

(***************************************************************************)
(* The prime-order group, the hash functions and their sizes.              *)
(***************************************************************************)
\* The group of the model is the integers modulo the prime Q under addition,
\* with base 1; Q is the GroupSize-th odd prime.
Q == <<3, 5, 7, 11, 13>>[GroupSize]

Scalars == 1 .. (Q - 1)

Elements == 0 .. (Q - 1)

Base == 1

\* Element.Mult(scalar)
Mult(e, s) == (e * s) % Q

\* Scalar.Invert()
Invert(s) == CHOOSE x \in Scalars : (x * s) % Q = 1

PointLength(g) ==
    CASE g = "RistrettoSha512" -> 32
      [] g = "P256Sha256" -> 33
      [] g = "P384Sha512" -> 49
      [] OTHER -> 67

ScalarLength(g) ==
    CASE g = "RistrettoSha512" -> 32
      [] g = "P256Sha256" -> 32
      [] g = "P384Sha512" -> 48
      [] OTHER -> 66

HashSize(h) == IF h = "SHA256" THEN 32 ELSE 64

SerializePoint(g, e) == Bytes(<<"pt", g, e>>, PointLength(g))

SerializeScalar(g, s) == Bytes(<<"sc", g, s>>, ScalarLength(g))

\* A byte string of element length that is no encoding of a group element.
BadElement(g) == Bytes(<<"badpt", g>>, PointLength(g))

\* Element.Decode: ok only for the encoding of a group element.
DecodeElement(g, b) ==
    IF \E e \in Elements : b = SerializePoint(g, e)
    THEN [ok |-> TRUE, v |-> CHOOSE e \in Elements : b = SerializePoint(g, e)]
    ELSE [ok |-> FALSE, v |-> 0]

\* Scalar.Decode
DecodeScalar(g, b) ==
    IF \E s \in Scalars : b = SerializeScalar(g, s)
    THEN [ok |-> TRUE, v |-> CHOOSE s \in Scalars : b = SerializeScalar(g, s)]
    ELSE [ok |-> FALSE, v |-> 0]

\* encoding.PadPoint: left-pad with zeros to the element length.
PadPoint(b, g) == Concat(Zeros(PointLength(g) - BLen(b)), b)

\* encoding.I2OSP(n, w)
I2OSP(n, w) == Bytes(<<"int", n, w>>, w)

\* encoding.EncodeVectorLen(b, w): w-byte length prefix.
EncodeVectorLen(b, w) == Concat(I2OSP(BLen(b), w), b)

\* encoding.EncodeVector(b): 2-byte length prefix.
EncodeVector(b) == EncodeVectorLen(b, 2)

\* encoding.SuffixString(b, tag)
SuffixString(b, s) == Concat(b, Str(s))

Hash(h, m) == Bytes(<<"H", h, m>>, HashSize(h))

Mac(h, key, m) == Bytes(<<"MAC", h, key, m>>, HashSize(h))

\* hmac.Equal
MacEqual(a, b) == a = b

Extract(h, salt, ikmBytes) == Bytes(<<"Extract", h, salt, ikmBytes>>, HashSize(h))

Expand(h, key, info, n) == Bytes(<<"Expand", h, key, info>>, n)

Harden(m, input, n) == Bytes(<<"MHF", m, input>>, n)

\* A numeric digest of a byte string, for the maps into the group
\* (HashToGroup, HashToScalar): a function of every leaf of its input.
RECURSIVE DigB(_)
RECURSIVE DigT(_)
DigB(b) == IF Len(b) = 0 THEN 0 ELSE (DigT(b[1][1]) + 2 * DigB(Tail(b))) % 997

DigT(t) ==
    CASE t[1] \in {"pw", "seed", "cred", "id", "nonce", "rand"} -> t[2]
      [] t[1] \in {"pt", "sc"} -> t[3]
      [] t[1] \in {"H", "MHF"} -> (1 + DigB(t[3])) % 997
      [] t[1] \in {"Expand", "MAC", "Extract"} ->
            (1 + 2 * DigB(t[3]) + DigB(t[4])) % 997
      [] t[1] = "xor" -> (DigB(t[2]) + DigB(t[3])) % 997
      [] t[1] = "not" -> (1 + DigB(t[2])) % 997
      [] OTHER -> 0

HashToScalar(b) == (DigB(b) % (Q - 1)) + 1

HashToGroup(b) == (DigB(b) % (Q - 1)) + 1

(***************************************************************************)
(* Configuration and the parameters derived from it.                       *)
(***************************************************************************)
Internal == 1

External == 2

DefaultConfiguration ==
    [Group |-> "RistrettoSha512", KDF |-> "SHA512", MAC |-> "SHA512",
     Hash |-> "SHA512", MHF |-> "Scrypt", Mode |-> Internal,
     Context |-> Nil, NonceLen |-> 32]

\* envelopeSize with the inner envelope in both modes.
envelopeSize_alwaysinner(mode, p) == p.NonceLen + HashSize(p.MAC) + ScalarLength(p.Group)

\* envelopeSize without the inner envelope of External mode.
envelopeSize_noinner(mode, p) == p.NonceLen + HashSize(p.MAC)

envelopeSize(mode, p) ==
    LET innerSize == IF mode = External THEN ScalarLength(p.Group) ELSE 0
    IN  p.NonceLen + HashSize(p.MAC) + innerSize

toInternal(c) ==
    LET ip == [KDF |-> c.KDF, MAC |-> c.MAC, Hash |-> c.Hash, MHF |-> c.MHF,
               NonceLen |-> c.NonceLen,
               OPRFPointLength |-> PointLength(c.Group),
               AkePointLength |-> PointLength(c.Group),
               Group |-> c.Group, Context |-> c.Context]
    IN  [KDF |-> ip.KDF, MAC |-> ip.MAC, Hash |-> ip.Hash, MHF |-> ip.MHF,
         NonceLen |-> ip.NonceLen, OPRFPointLength |-> ip.OPRFPointLength,
         AkePointLength |-> ip.AkePointLength, Group |-> ip.Group,
         Context |-> ip.Context, EnvelopeSize |-> envelopeSize(c.Mode, ip)]

\* GetFakeEnvelope one byte short of the envelope size.
GetFakeEnvelope_short(c) == Zeros(toInternal(c).EnvelopeSize - 1)

GetFakeEnvelope(c) == Zeros(toInternal(c).EnvelopeSize)

(***************************************************************************)
(* Messages and their encodings.                                           *)
(***************************************************************************)
CredentialRequestSerialize(m) == m.Data

CredentialResponseSerialize(m) ==
    Concat3(m.Data, m.MaskingNonce, m.MaskedResponse)

KE1Serialize(m) == Concat3(CredentialRequestSerialize(m), m.NonceU, m.EpkU)

\* KE2.Serialize with the server's ephemeral public key before its nonce.
KE2Serialize_epkfirst(m) ==
    Concat(CredentialResponseSerialize(m), Concat3(m.EpkS, m.NonceS, m.Mac))

KE2Serialize(m) ==
    Concat(CredentialResponseSerialize(m), Concat3(m.NonceS, m.EpkS, m.Mac))

KE3Serialize(m) == m.Mac

RegistrationRequestSerialize(m) == m.Data

RegistrationResponseSerialize(m) == Concat(m.Data, m.Pks)

RegistrationUploadSerialize(m) == Concat3(m.PublicKey, m.MaskingKey, m.Envelope)

ErrInvalidMessageLength == <<"invalid message length">>

DeserializeRegistrationRequest(p, b) ==
    IF BLen(b) # p.OPRFPointLength
    THEN [err |-> ErrInvalidMessageLength, msg |-> None]
    ELSE [err |-> NoErr, msg |-> Some([Data |-> b])]

DeserializeRegistrationResponse(p, b) ==
    IF BLen(b) # p.OPRFPointLength + p.AkePointLength
    THEN [err |-> ErrInvalidMessageLength, msg |-> None]
    ELSE [err |-> NoErr,
          msg |-> Some([Data |-> Take(b, p.OPRFPointLength),
                        Pks |-> Drop(b, p.OPRFPointLength)])]

DeserializeRegistrationUpload(p, b) ==
    IF BLen(b) # p.AkePointLength + HashSize(p.Hash) + p.EnvelopeSize
    THEN [err |-> ErrInvalidMessageLength, msg |-> None]
    ELSE [err |-> NoErr,
          msg |-> Some([PublicKey |-> Take(b, p.AkePointLength),
                        MaskingKey |-> Slice(b, p.AkePointLength,
                                             p.AkePointLength + HashSize(p.Hash)),
                        Envelope |-> Drop(b, p.AkePointLength + HashSize(p.Hash))])]

DeserializeKE1(p, b) ==
    IF BLen(b) # p.OPRFPointLength + p.NonceLen + p.AkePointLength
    THEN [err |-> ErrInvalidMessageLength, msg |-> None]
    ELSE [err |-> NoErr,
          msg |-> Some([Data |-> Take(b, p.OPRFPointLength),
                        NonceU |-> Slice(b, p.OPRFPointLength,
                                         p.OPRFPointLength + p.NonceLen),
                        EpkU |-> Drop(b, p.OPRFPointLength + p.NonceLen)])]

DeserializeKE2(p, b) ==
    LET o1 == p.OPRFPointLength
        o2 == o1 + p.NonceLen
        o3 == o2 + p.AkePointLength + p.EnvelopeSize
        o4 == o3 + p.NonceLen
        o5 == o4 + p.AkePointLength
    IN  IF BLen(b) # o5 + HashSize(p.MAC)
        THEN [err |-> ErrInvalidMessageLength, msg |-> None]
        ELSE [err |-> NoErr,
              msg |-> Some([Data |-> Take(b, o1),
                            MaskingNonce |-> Slice(b, o1, o2),
                            MaskedResponse |-> Slice(b, o2, o3),
                            NonceS |-> Slice(b, o3, o4),
                            EpkS |-> Slice(b, o4, o5),
                            Mac |-> Drop(b, o5)])]

DeserializeKE3(p, b) ==
    IF BLen(b) # HashSize(p.MAC)
    THEN [err |-> ErrInvalidMessageLength, msg |-> None]
    ELSE [err |-> NoErr, msg |-> Some([Mac |-> b])]

\* Parameters.MaskResponse: XOR with the pad expanded from the masking key.
MaskResponse(p, key, nonce, in) ==
    Xor(in, Expand(p.KDF, key, SuffixString(nonce, "CredentialResponsePad"),
                   BLen(in)))

(***************************************************************************)
(* OPRF (2HashDH) over the group.                                          *)
(***************************************************************************)
\* Client.Blind: hash the password to the group, multiply by the blind r.
OprfBlind(g, pw, r) == SerializePoint(g, Mult(HashToGroup(pw), r))

\* Server(ku).Evaluate(blinded)
OprfEvaluate(g, ku, blinded) ==
    The({ IF ~d.ok
          THEN [err |-> <<"can't evaluate input ", "could not decode element">>,
                m |-> Nil]
          ELSE [err |-> NoErr, m |-> SerializePoint(g, Mult(d.v, ku))]
          : d \in {DecodeElement(g, blinded)} })

\* Client.Finalize(evaluated): unblind, then hash with the password.
OprfFinalize(p, pw, r, evaluated) ==
    The({ IF ~d.ok
          THEN [err |-> <<"finalizing OPRF ", "could not decode element">>,
                m |-> Nil]
          ELSE [err |-> NoErr,
                m |-> Hash(p.Hash,
                           Concat3(EncodeVector(pw),
                                   EncodeVector(SerializePoint(p.Group,
                                                    Mult(d.v, Invert(r)))),
                                   Str("Finalize")))]
          : d \in {DecodeElement(p.Group, evaluated)} })

\* OPRF.DeriveKey(seed, info)
DeriveKey(seed, info) == HashToScalar(Concat(seed, info))

(***************************************************************************)
(* 3DH: key schedule, transcript and MACs.                                 *)
(***************************************************************************)
client == TRUE

server == FALSE

\* KeyGen returning the public key of another scalar.
KeyGen_unrelated(g, scalar) == [sk |-> SerializeScalar(g, scalar), pk |-> SerializePoint(g, Mult(Base, (scalar % (Q - 1)) + 1))]

\* KeyGen with the sampled scalar made explicit.
KeyGen(g, scalar) ==
    [sk |-> SerializeScalar(g, scalar),
     pk |-> SerializePoint(g, Mult(Base, scalar))]

buildLabel(length, label, context) ==
    Concat3(I2OSP(length, 2),
            EncodeVectorLen(Concat(Str("OPAQUE "), label), 1),
            EncodeVectorLen(context, 1))

expand(h, secret, hkdfLabel) == Expand(h, secret, hkdfLabel, HashSize(h))

expandLabel(h, secret, label, context) ==
    expand(h, secret, buildLabel(HashSize(h), label, context))

deriveSecret(h, secret, label, context) == expandLabel(h, secret, label, context)

\* The streaming hash of an instance: hs is what has been written to it.
HashWrite(hs, b) == Concat(hs, b)

HashSum(p, hs) == Hash(p.Hash, hs)

\* initTranscript with the context left out of the transcript.
initTranscript_nocontext(p, hs, idc, ids, ke1, ke2) ==
    LET sidc == EncodeVector(idc)
        sids == EncodeVector(ids)
    IN  HashWrite(hs, Concatenate(<<Str("RFCXXXX"), EncodeVector(Nil),
                                    sidc, KE1Serialize(ke1),
                                    sids, CredentialResponseSerialize(ke2),
                                    ke2.NonceS, ke2.EpkS>>))

\* initTranscript with the nonces of both sides left out of the transcript.
initTranscript_nononces(p, hs, idc, ids, ke1, ke2) ==
    LET sidc == EncodeVector(idc)
        sids == EncodeVector(ids)
    IN  HashWrite(hs, Concatenate(<<Str("RFCXXXX"), EncodeVector(p.Context),
                                    sidc, Concat(ke1.Data, ke1.EpkU),
                                    sids, CredentialResponseSerialize(ke2),
                                    ke2.EpkS>>))

\* Returns the state of p.Hash after the transcript has been written to it.
initTranscript(p, hs, idc, ids, ke1, ke2) ==
    LET sidc == EncodeVector(idc)
        sids == EncodeVector(ids)
    IN  HashWrite(hs, Concatenate(<<Str("RFCXXXX"), EncodeVector(p.Context),
                                    sidc, KE1Serialize(ke1),
                                    sids, CredentialResponseSerialize(ke2),
                                    ke2.NonceS, ke2.EpkS>>))

deriveKeys(h, ikmBytes, context) ==
    The({ The({ [sessionSecret |->
                     deriveSecret(h, prk, Str("session secret"), context),
                 serverMacKey |->
                     expandLabel(h, handshakeSecret, Str("server mac"), Nil),
                 clientMacKey |->
                     expandLabel(h, handshakeSecret, Str("client mac"), Nil)]
                : handshakeSecret \in
                      {deriveSecret(h, prk, Str("handshake secret"), context)} })
          : prk \in {Extract(h, Nil, ikmBytes)} })

\* decodeKeys decoding the long-term public key before the ephemeral one.
decodeKeys_pkfirst(g, peerEpk, peerPk) ==
    The({ IF ~pk.ok
          THEN [err |-> <<"decoding peer public key",
                          "could not decode element">>, epk |-> 0, pk |-> 0]
          ELSE IF ~epk.ok
          THEN [err |-> <<"decoding peer ephemeral public key",
                          "could not decode element">>, epk |-> 0, pk |-> 0]
          ELSE [err |-> NoErr, epk |-> epk.v, pk |-> pk.v]
          : epk \in {DecodeElement(g, peerEpk)},
            pk \in {DecodeElement(g, peerPk)} })

decodeKeys(g, peerEpk, peerPk) ==
    The({ IF ~epk.ok
          THEN [err |-> <<"decoding peer ephemeral public key",
                          "could not decode element">>, epk |-> 0, pk |-> 0]
          ELSE IF ~pk.ok
          THEN [err |-> <<"decoding peer public key",
                          "could not decode element">>, epk |-> 0, pk |-> 0]
          ELSE [err |-> NoErr, epk |-> epk.v, pk |-> pk.v]
          : epk \in {DecodeElement(g, peerEpk)},
            pk \in {DecodeElement(g, peerPk)} })

k3dh(g, p1, s1, p2, s2, p3, s3) ==
    LET e1 == Mult(p1, s1)
        e2 == Mult(p2, s2)
        e3 == Mult(p3, s3)
    IN  Concat3(SerializePoint(g, e1), SerializePoint(g, e2),
                SerializePoint(g, e3))

\* ikm with the server computing the products in the client's order.
ikm_swapped(s, g, esk, secretKey, peerEpk, peerPublicKey) ==
    The({ IF d.err # NoErr
          THEN [err |-> d.err, ikm |-> Nil]
          ELSE [err |-> NoErr,
                ikm |-> k3dh(g, d.epk, esk, d.pk, esk, d.epk, secretKey)]
          : d \in {decodeKeys(g, peerEpk, peerPublicKey)} })

ikm(s, g, esk, secretKey, peerEpk, peerPublicKey) ==
    The({ IF d.err # NoErr
          THEN [err |-> d.err, ikm |-> Nil]
          ELSE IF s = client
          THEN [err |-> NoErr,
                ikm |-> k3dh(g, d.epk, esk, d.pk, esk, d.epk, secretKey)]
          ELSE [err |-> NoErr,
                ikm |-> k3dh(g, d.epk, esk, d.epk, secretKey, d.pk, esk)]
          : d \in {decodeKeys(g, peerEpk, peerPublicKey)} })

\* core3DH computing the client MAC as it computes the server MAC: under the
\* server's MAC key, over the transcript without the server MAC.
core3DH_onemac(s, p, hs, k, idu, ids, ke1, ke2) ==
    The({ IF i.err # NoErr
          THEN [err |-> i.err, serverMac |-> Nil, clientMac |-> Nil,
                sessionSecret |-> Nil, hash |-> hs]
          ELSE The({ LET serverMac == Mac(p.MAC, keys.serverMacKey,
                                          HashSum(p, h1))
                         h2 == HashWrite(h1, serverMac)
                     IN  [err |-> NoErr, serverMac |-> serverMac,
                          clientMac |-> Mac(p.MAC, keys.serverMacKey,
                                            HashSum(p, h1)),
                          sessionSecret |-> keys.sessionSecret, hash |-> h2]
                     : keys \in {deriveKeys(p.KDF, i.ikm, HashSum(p, h1))} })
          : i \in {ikm(s, p.Group, k.esk, k.secretKey, k.peerEpk,
                       k.peerPublicKey)},
            h1 \in {initTranscript(p, hs, idu, ids, ke1, ke2)} })

\* k holds esk, secretKey, peerEpk, peerPublicKey; hs is the state of p.Hash
\* on entry, and the result's hash field its state on return.
core3DH(s, p, hs, k, idu, ids, ke1, ke2) ==
    The({ IF i.err # NoErr
          THEN [err |-> i.err, serverMac |-> Nil, clientMac |-> Nil,
                sessionSecret |-> Nil, hash |-> hs]
          ELSE The({ LET serverMac == Mac(p.MAC, keys.serverMacKey,
                                          HashSum(p, h1))
                         h2 == HashWrite(h1, serverMac)
                         transcript3 == HashSum(p, h2)
                     IN  [err |-> NoErr, serverMac |-> serverMac,
                          clientMac |-> Mac(p.MAC, keys.clientMacKey,
                                            transcript3),
                          sessionSecret |-> keys.sessionSecret, hash |-> h2]
                     : keys \in {deriveKeys(p.KDF, i.ikm, HashSum(p, h1))} })
          : i \in {ikm(s, p.Group, k.esk, k.secretKey, k.peerEpk,
                       k.peerPublicKey)},
            h1 \in {initTranscript(p, hs, idu, ids, ke1, ke2)} })

(***************************************************************************)
(* The AKE server: the state kept between Init and Finish.                 *)
(***************************************************************************)
\* One Hash object for every instance built from the same Configuration.
NewHash_shared(side, i) == <<TRUE, 0>>

\* The Hash object toInternal builds: c.Hash.Get() makes a new one on every
\* call, so that instance i of a side has a Hash object of its own.
NewHash(side, i) == <<side, i>>

\* ake.NewServer() inside a Server built from configuration c.
\* NewServer defaulting to the default configuration in External mode.
NewServer_external(c) ==
    [p |-> toInternal(IF c = Nil THEN [DefaultConfiguration EXCEPT !.Mode = External]
                      ELSE c),
     hash |-> Nil, clientMac |-> Nil, sessionSecret |-> Nil]

\* A nil configuration (Nil) stands for DefaultConfiguration().
NewServer(c) ==
    [p |-> toInternal(IF c = Nil THEN DefaultConfiguration ELSE c),
     hash |-> Nil, clientMac |-> Nil, sessionSecret |-> Nil]

\* An instance reading the Configuration anew at every use.
ParametersOf_live(inst, c) == toInternal(c)

\* The Parameters an instance works with: the ones toInternal built when the
\* instance was made from Configuration c, whatever c holds now.
ParametersOf(inst, c) == inst.p

\* ake.Server.Response: rnd holds the sampled esk and nonce.
AkeServerResponse(s, serverIdentity, serverSecretKey, clientIdentity, clientPublicKey, ke1, response, rnd) ==
    The({ The({ IF r.err # NoErr
                THEN [err |-> r.err, ke2 |-> None, s |-> s]
                ELSE [err |-> NoErr,
                      ke2 |-> Some([ke2 EXCEPT !.Mac = r.serverMac]),
                      s |-> [s EXCEPT !.hash = r.hash,
                                      !.clientMac = r.clientMac,
                                      !.sessionSecret = r.sessionSecret]]
                : r \in {core3DH(server, s.p, s.hash,
                                 [esk |-> rnd.esk,
                                  secretKey |-> serverSecretKey,
                                  peerEpk |-> ke1.EpkU,
                                  peerPublicKey |-> clientPublicKey],
                                 clientIdentity, serverIdentity, ke1, ke2)} })
          : ke2 \in {[Data |-> response.Data,
                      MaskingNonce |-> response.MaskingNonce,
                      MaskedResponse |-> response.MaskedResponse,
                      NonceS |-> rnd.nonce,
                      EpkS |-> PadPoint(SerializePoint(s.p.Group,
                                                       Mult(Base, rnd.esk)),
                                        s.p.Group),
                      Mac |-> Nil]} })

\* ake.Server.Finalize: compares the received client MAC to the expected one.
AkeServerFinalize(s, ke3) == MacEqual(s.clientMac, ke3.Mac)

AkeServerSessionKey(s) == s.sessionSecret

AkeServerExpectedMAC(s) == s.clientMac

(***************************************************************************)
(* Server.                                                                 *)
(***************************************************************************)
ErrAkeInvalidClientMac == <<"failed to authenticate client: invalid client mac">>

\* evaluate with the decoding error of the blinded element dropped.
evaluate_unchecked(p, seed, blinded) ==
    [err |-> NoErr,
     m |-> SerializePoint(p.Group,
                          Mult(DecodeElement(p.Group, blinded).v,
                               DeriveKey(seed, Str("OPAQUE-DeriveKeyPair"))))]

evaluate(p, seed, blinded) ==
    LET ku == DeriveKey(seed, Str("OPAQUE-DeriveKeyPair"))
    IN  OprfEvaluate(p.Group, ku, blinded)

oprfResponse(p, oprfSeed, credentialIdentifier, element) ==
    LET seed == Expand(p.KDF, oprfSeed,
                       SuffixString(credentialIdentifier, "OprfKey"),
                       ScalarLength(p.Group))
    IN  evaluate(p, seed, element)

ServerRegistrationResponse(p, req, serverPublicKey, credentialIdentifier, oprfSeed) ==
    The({ IF z.err # NoErr
          THEN [err |-> Wrap(" RegistrationResponse", z.err), msg |-> None]
          ELSE [err |-> NoErr,
                msg |-> Some([Data |-> PadPoint(z.m, p.Group),
                              Pks |-> serverPublicKey])]
          : z \in {oprfResponse(p, oprfSeed, credentialIdentifier, req.Data)} })

\* credentialResponse deriving the OPRF key from the record's masking key.
credentialResponse_recordseed(p, req, serverPublicKey, record, credentialIdentifier, oprfSeed, maskingNonce, rndNonce) ==
    The({ IF z.err # NoErr
          THEN [err |-> Wrap("oprfResponse", z.err), msg |-> None]
          ELSE [err |-> NoErr,
                msg |-> Some([Data |-> PadPoint(z.m, p.Group),
                              MaskingNonce |-> nonce,
                              MaskedResponse |->
                                  MaskResponse(p, record.MaskingKey, nonce,
                                               clear)])]
          : z \in {oprfResponse(p, record.MaskingKey, credentialIdentifier,
                                req.Data)},
            nonce \in {IF BLen(maskingNonce) = 0 THEN rndNonce
                       ELSE maskingNonce},
            clear \in {Concat(serverPublicKey, record.Envelope)} })

\* credentialResponse sending server public key || envelope without the mask.
credentialResponse_nomask(p, req, serverPublicKey, record, credentialIdentifier, oprfSeed, maskingNonce, rndNonce) ==
    The({ IF z.err # NoErr
          THEN [err |-> Wrap("oprfResponse", z.err), msg |-> None]
          ELSE [err |-> NoErr,
                msg |-> Some([Data |-> PadPoint(z.m, p.Group),
                              MaskingNonce |-> nonce,
                              MaskedResponse |-> clear])]
          : z \in {oprfResponse(p, oprfSeed, credentialIdentifier, req.Data)},
            nonce \in {IF BLen(maskingNonce) = 0 THEN rndNonce
                       ELSE maskingNonce},
            clear \in {Concat(serverPublicKey, record.Envelope)} })

\* credentialResponse masking envelope || server public key.
credentialResponse_swapped(p, req, serverPublicKey, record, credentialIdentifier, oprfSeed, maskingNonce, rndNonce) ==
    The({ IF z.err # NoErr
          THEN [err |-> Wrap("oprfResponse", z.err), msg |-> None]
          ELSE [err |-> NoErr,
                msg |-> Some([Data |-> PadPoint(z.m, p.Group),
                              MaskingNonce |-> nonce,
                              MaskedResponse |->
                                  MaskResponse(p, record.MaskingKey, nonce,
                                               clear)])]
          : z \in {oprfResponse(p, oprfSeed, credentialIdentifier, req.Data)},
            nonce \in {IF BLen(maskingNonce) = 0 THEN rndNonce
                       ELSE maskingNonce},
            clear \in {Concat(record.Envelope, serverPublicKey)} })

\* rndNonce stands for internal.RandomBytes(NonceLen).
credentialResponse(p, req, serverPublicKey, record, credentialIdentifier, oprfSeed, maskingNonce, rndNonce) ==
    The({ IF z.err # NoErr
          THEN [err |-> Wrap("oprfResponse", z.err), msg |-> None]
          ELSE [err |-> NoErr,
                msg |-> Some([Data |-> PadPoint(z.m, p.Group),
                              MaskingNonce |-> nonce,
                              MaskedResponse |->
                                  MaskResponse(p, record.MaskingKey, nonce,
                                               clear)])]
          : z \in {oprfResponse(p, oprfSeed, credentialIdentifier, req.Data)},
            nonce \in {IF BLen(maskingNonce) = 0 THEN rndNonce
                       ELSE maskingNonce},
            clear \in {Concat(serverPublicKey, record.Envelope)} })

\* Server.Init wiping the AKE state when it returns an error.
ServerInit_clearing(s, ke1, serverIdentity, serverSecretKey, serverPublicKey, oprfSeed, record, rnd) ==
    The({ IF ~dpk.ok
          THEN [err |-> <<"invalid server public key", "could not decode element">>,
                ke2 |-> None, s |-> wiped]
          ELSE IF ~sks.ok
          THEN [err |-> <<"invalid server secret key", "could not decode scalar">>,
                ke2 |-> None, s |-> wiped]
          ELSE IF response.err # NoErr
          THEN [err |-> Wrap(" credentialResponse", response.err),
                ke2 |-> None, s |-> wiped]
          ELSE The({ IF r.err # NoErr
                     THEN [err |-> Wrap(" AKE response", r.err),
                           ke2 |-> None, s |-> wiped]
                     ELSE [err |-> NoErr, ke2 |-> r.ke2, s |-> r.s]
                     : r \in {AkeServerResponse(s,
                                  IF serverIdentity = Nil THEN serverPublicKey
                                  ELSE serverIdentity,
                                  sks.v,
                                  IF record.ClientIdentity = Nil
                                  THEN record.PublicKey
                                  ELSE record.ClientIdentity,
                                  record.PublicKey, ke1, response.msg[1],
                                  rnd)} })
          : dpk \in {DecodeElement(s.p.Group, serverPublicKey)},
            sks \in {DecodeScalar(s.p.Group, serverSecretKey)},
            response \in {credentialResponse(s.p, ke1, serverPublicKey, record,
                              record.CredentialIdentifier, oprfSeed,
                              record.TestMaskNonce, rnd.maskingNonce)},
            wiped \in {[s EXCEPT !.clientMac = Nil, !.sessionSecret = Nil]} })

\* Server.Init handing nil identities on as they are.
ServerInit_nodefault(s, ke1, serverIdentity, serverSecretKey, serverPublicKey, oprfSeed, record, rnd) ==
    The({ IF ~dpk.ok
          THEN [err |-> <<"invalid server public key", "could not decode element">>,
                ke2 |-> None, s |-> s]
          ELSE IF ~sks.ok
          THEN [err |-> <<"invalid server secret key", "could not decode scalar">>,
                ke2 |-> None, s |-> s]
          ELSE IF response.err # NoErr
          THEN [err |-> Wrap(" credentialResponse", response.err),
                ke2 |-> None, s |-> s]
          ELSE The({ IF r.err # NoErr
                     THEN [err |-> Wrap(" AKE response", r.err),
                           ke2 |-> None, s |-> s]
                     ELSE [err |-> NoErr, ke2 |-> r.ke2, s |-> r.s]
                     : r \in {AkeServerResponse(s, serverIdentity, sks.v,
                                  record.ClientIdentity, record.PublicKey, ke1,
                                  response.msg[1], rnd)} })
          : dpk \in {DecodeElement(s.p.Group, serverPublicKey)},
            sks \in {DecodeScalar(s.p.Group, serverSecretKey)},
            response \in {credentialResponse(s.p, ke1, serverPublicKey, record,
                              record.CredentialIdentifier, oprfSeed,
                              record.TestMaskNonce, rnd.maskingNonce)} })

\* Server.Init; rnd holds the values sampled during the call (maskingNonce,
\* esk, nonce).  The s field of the result is the Server after the call.
ServerInit(s, ke1, serverIdentity, serverSecretKey, serverPublicKey, oprfSeed, record, rnd) ==
    The({ IF ~dpk.ok
          THEN [err |-> <<"invalid server public key", "could not decode element">>,
                ke2 |-> None, s |-> s]
          ELSE IF ~sks.ok
          THEN [err |-> <<"invalid server secret key", "could not decode scalar">>,
                ke2 |-> None, s |-> s]
          ELSE IF response.err # NoErr
          THEN [err |-> Wrap(" credentialResponse", response.err),
                ke2 |-> None, s |-> s]
          ELSE The({ IF r.err # NoErr
                     THEN [err |-> Wrap(" AKE response", r.err),
                           ke2 |-> None, s |-> s]
                     ELSE [err |-> NoErr, ke2 |-> r.ke2, s |-> r.s]
                     : r \in {AkeServerResponse(s,
                                  IF serverIdentity = Nil THEN serverPublicKey
                                  ELSE serverIdentity,
                                  sks.v,
                                  IF record.ClientIdentity = Nil
                                  THEN record.PublicKey
                                  ELSE record.ClientIdentity,
                                  record.PublicKey, ke1, response.msg[1],
                                  rnd)} })
          : dpk \in {DecodeElement(s.p.Group, serverPublicKey)},
            sks \in {DecodeScalar(s.p.Group, serverSecretKey)},
            response \in {credentialResponse(s.p, ke1, serverPublicKey, record,
                              record.CredentialIdentifier, oprfSeed,
                              record.TestMaskNonce, rnd.maskingNonce)} })

\* Server.Finish with the test of Finalize inverted.
ServerFinish_negated(s, ke3) ==
    IF AkeServerFinalize(s, ke3) THEN ErrAkeInvalidClientMac ELSE NoErr

\* Server.Finish without the call of Finalize.
ServerFinish_accepting(s, ke3) == NoErr

ServerFinish(s, ke3) ==
    IF ~AkeServerFinalize(s, ke3) THEN ErrAkeInvalidClientMac ELSE NoErr

ServerSessionKey(s) == AkeServerSessionKey(s)

ServerExpectedMAC(s) == AkeServerExpectedMAC(s)

\* ake.Server.SerializeState: expected client MAC || session key.
AkeServerSerializeState(s) == Concat(s.clientMac, s.sessionSecret)

\* ake.Server.SetState
AkeServerSetState(s, clientMac, sessionSecret) ==
    [err |-> NoErr,
     s |-> [s EXCEPT !.clientMac = clientMac, !.sessionSecret = sessionSecret]]

ErrInvalidState == <<"invalid state length">>

\* SetAKEState without the check of the length.
SetAKEState_unchecked(s, state) ==
    AkeServerSetState(s, Take(state, HashSize(s.p.MAC)),
                      Drop(state, HashSize(s.p.MAC)))

\* SetAKEState handing the two halves of the state over in the wrong order.
SetAKEState_swapped(s, state) ==
    IF BLen(state) # HashSize(s.p.MAC) + HashSize(s.p.KDF)
    THEN [err |-> ErrInvalidState, s |-> s]
    ELSE AkeServerSetState(s, Drop(state, HashSize(s.p.MAC)),
                           Take(state, HashSize(s.p.MAC)))

\* Server.SetAKEState; the s field of the result is the Server after the call.
SetAKEState(s, state) ==
    IF BLen(state) # HashSize(s.p.MAC) + HashSize(s.p.KDF)
    THEN [err |-> ErrInvalidState, s |-> s]
    ELSE AkeServerSetState(s, Take(state, HashSize(s.p.MAC)),
                           Drop(state, HashSize(s.p.MAC)))

SerializeState(s) == AkeServerSerializeState(s)

(***************************************************************************)
(* Envelope: build at registration, recover at login.                      *)
(***************************************************************************)
\* The randomized password.
BuildPRK(p, oprfOutput) ==
    Extract(p.KDF, Nil,
            Concat(Harden(p.MHF, oprfOutput, HashSize(p.Hash)), oprfOutput))

ExportKeyOf(p, randomizedPwd, nonce) ==
    Expand(p.KDF, randomizedPwd, SuffixString(nonce, "ExportKey"), HashSize(p.Hash))

AuthKeyOf(p, randomizedPwd, nonce) ==
    Expand(p.KDF, randomizedPwd, SuffixString(nonce, "AuthKey"), HashSize(p.KDF))

MaskingKeyOf(p, randomizedPwd) ==
    Expand(p.KDF, randomizedPwd, Str("MaskingKey"), HashSize(p.Hash))

PadOf(p, randomizedPwd, nonce) ==
    Expand(p.KDF, randomizedPwd, SuffixString(nonce, "Pad"), ScalarLength(p.Group))

\* Internal mode: the client secret key derived from the randomized password.
InternalSecretKey(p, randomizedPwd, nonce) ==
    HashToScalar(Expand(p.KDF, randomizedPwd, SuffixString(nonce, "PrivateKey"),
                        ScalarLength(p.Group)))

CreateCleartextCredentials(pkc, pks, idc, ids) ==
    Concatenate(<<pkc, pks,
                  EncodeVector(IF idc = Nil THEN pkc ELSE idc),
                  EncodeVector(IF ids = Nil THEN pks ELSE ids)>>)

AuthTagOf(p, randomizedPwd, nonce, inner, ctc) ==
    Mac(p.MAC, AuthKeyOf(p, randomizedPwd, nonce), Concat3(nonce, inner, ctc))

\* sk is the caller's decoded secret key (External mode only).
BuildEnvelope(p, mode, randomizedPwd, sk, pks, idc, ids, nonce) ==
    The({ LET inner == IF mode = External
                       THEN Xor(SerializeScalar(p.Group, skc),
                                PadOf(p, randomizedPwd, nonce))
                       ELSE Nil
              pkc == SerializePoint(p.Group, Mult(Base, skc))
              ctc == CreateCleartextCredentials(pkc, pks, idc, ids)
          IN  [envelope |-> Concat3(nonce, inner,
                                AuthTagOf(p, randomizedPwd, nonce, inner, ctc)),
               pkc |-> pkc,
               exportKey |-> ExportKeyOf(p, randomizedPwd, nonce)]
          : skc \in {IF mode = External THEN sk
                     ELSE InternalSecretKey(p, randomizedPwd, nonce)} })

\* Envelope recovery without the comparison of the authentication tag.
RecoverEnvelope_unchecked(p, mode, randomizedPwd, pks, idc, ids, envelope) ==
    The({ The({ LET pkc == IF dsk.ok
                           THEN SerializePoint(p.Group, Mult(Base, dsk.v))
                           ELSE Nil
                    ctc == CreateCleartextCredentials(pkc, pks, idc, ids)
                IN  IF ~dsk.ok
                    THEN [err |-> <<"can't recover envelope",
                                    "invalid secret key encoding">>,
                          sk |-> 0, pkc |-> Nil, exportKey |-> Nil]
                    ELSE [err |-> NoErr, sk |-> dsk.v, pkc |-> pkc,
                          exportKey |-> ExportKeyOf(p, randomizedPwd, nonce)]
                : dsk \in {IF mode = External
                           THEN DecodeScalar(p.Group,
                                    Xor(inner, PadOf(p, randomizedPwd, nonce)))
                           ELSE [ok |-> TRUE,
                                 v |-> InternalSecretKey(p, randomizedPwd,
                                                         nonce)]} })
          : nonce \in {Take(envelope, p.NonceLen)},
            inner \in {Slice(envelope, p.NonceLen,
                             p.NonceLen + (IF mode = External
                                           THEN ScalarLength(p.Group) ELSE 0))},
            authTag \in {Drop(envelope,
                              p.NonceLen + (IF mode = External
                                            THEN ScalarLength(p.Group)
                                            ELSE 0))} })

RecoverEnvelope(p, mode, randomizedPwd, pks, idc, ids, envelope) ==
    The({ The({ LET pkc == IF dsk.ok
                           THEN SerializePoint(p.Group, Mult(Base, dsk.v))
                           ELSE Nil
                    ctc == CreateCleartextCredentials(pkc, pks, idc, ids)
                IN  IF ~MacEqual(AuthTagOf(p, randomizedPwd, nonce, inner, ctc),
                                 authTag)
                    THEN [err |-> <<"invalid envelope authentication tag">>,
                          sk |-> 0, pkc |-> Nil, exportKey |-> Nil]
                    ELSE IF ~dsk.ok
                    THEN [err |-> <<"can't recover envelope",
                                    "invalid secret key encoding">>,
                          sk |-> 0, pkc |-> Nil, exportKey |-> Nil]
                    ELSE [err |-> NoErr, sk |-> dsk.v, pkc |-> pkc,
                          exportKey |-> ExportKeyOf(p, randomizedPwd, nonce)]
                : dsk \in {IF mode = External
                           THEN DecodeScalar(p.Group,
                                    Xor(inner, PadOf(p, randomizedPwd, nonce)))
                           ELSE [ok |-> TRUE,
                                 v |-> InternalSecretKey(p, randomizedPwd,
                                                         nonce)]} })
          : nonce \in {Take(envelope, p.NonceLen)},
            inner \in {Slice(envelope, p.NonceLen,
                             p.NonceLen + (IF mode = External
                                           THEN ScalarLength(p.Group) ELSE 0))},
            authTag \in {Drop(envelope,
                              p.NonceLen + (IF mode = External
                                            THEN ScalarLength(p.Group)
                                            ELSE 0))} })

(***************************************************************************)
(* Client.                                                                 *)
(***************************************************************************)
NewClient(c) ==
    [p |-> toInternal(IF c = Nil THEN DefaultConfiguration ELSE c),
     mode |-> IF c = Nil THEN DefaultConfiguration.Mode ELSE c.Mode,
     hash |-> Nil, pwd |-> Nil,
     blind |-> 0, esk |-> 0, nonceU |-> Nil, ke1 |-> None,
     sessionSecret |-> Nil]

\* Client.RegistrationInit; r is the sampled blind.
ClientRegistrationInit(c, password, r) ==
    [c |-> [c EXCEPT !.pwd = password, !.blind = r],
     msg |-> [Data |-> OprfBlind(c.p.Group, password, r)]]

\* RegistrationFinalize without the check of the server public key.
ClientRegistrationFinalize_nopkscheck(c, clientSecretKey, creds, resp, rndNonce) ==
    The({ IF fin.err # NoErr
          THEN [err |-> Wrap("building envelope", fin.err),
                upload |-> None, exportKey |-> Nil]
          ELSE IF ~dsk.ok
          THEN [err |-> <<"building envelope", "can't build envelope",
                          "invalid secret key encoding">>,
                upload |-> None, exportKey |-> Nil]
          ELSE The({ [err |-> NoErr,
                      upload |-> Some([PublicKey |-> env.pkc,
                                       MaskingKey |->
                                           MaskingKeyOf(c.p, BuildPRK(c.p, fin.m)),
                                       Envelope |-> env.envelope]),
                      exportKey |-> env.exportKey]
                     : env \in {BuildEnvelope(c.p, c.mode, BuildPRK(c.p, fin.m),
                                    dsk.v, resp.Pks, creds.Client, creds.Server,
                                    IF BLen(creds.TestEnvNonce) = 0 THEN rndNonce
                                    ELSE creds.TestEnvNonce)} })
          : fin \in {OprfFinalize(c.p, c.pwd, c.blind, resp.Data)},
            dsk \in {IF c.mode = External
                     THEN DecodeScalar(c.p.Group, clientSecretKey)
                     ELSE [ok |-> TRUE, v |-> 0]} })

\* Client.RegistrationFinalize; rndNonce stands for the sampled envelope nonce.
ClientRegistrationFinalize(c, clientSecretKey, creds, resp, rndNonce) ==
    The({ IF ~dpk.ok
          THEN [err |-> <<"invalid server public key ", "could not decode element">>,
                upload |-> None, exportKey |-> Nil]
          ELSE IF fin.err # NoErr
          THEN [err |-> Wrap("building envelope", fin.err),
                upload |-> None, exportKey |-> Nil]
          ELSE IF ~dsk.ok
          THEN [err |-> <<"building envelope", "can't build envelope",
                          "invalid secret key encoding">>,
                upload |-> None, exportKey |-> Nil]
          ELSE The({ [err |-> NoErr,
                      upload |-> Some([PublicKey |-> env.pkc,
                                       MaskingKey |->
                                           MaskingKeyOf(c.p, BuildPRK(c.p, fin.m)),
                                       Envelope |-> env.envelope]),
                      exportKey |-> env.exportKey]
                     : env \in {BuildEnvelope(c.p, c.mode, BuildPRK(c.p, fin.m),
                                    dsk.v, resp.Pks, creds.Client, creds.Server,
                                    IF BLen(creds.TestEnvNonce) = 0 THEN rndNonce
                                    ELSE creds.TestEnvNonce)} })
          : dpk \in {DecodeElement(c.p.Group, resp.Pks)},
            fin \in {OprfFinalize(c.p, c.pwd, c.blind, resp.Data)},
            dsk \in {IF c.mode = External
                     THEN DecodeScalar(c.p.Group, clientSecretKey)
                     ELSE [ok |-> TRUE, v |-> 0]} })

\* Client.Init; r, esk and nonce are the sampled blind, ephemeral key and nonce.
ClientInit(c, password, r, esk, nonce) ==
    LET ke1 == [Data |-> OprfBlind(c.p.Group, password, r),
                NonceU |-> nonce,
                EpkU |-> PadPoint(SerializePoint(c.p.Group, Mult(Base, esk)),
                                  c.p.Group)]
    IN  [c |-> [c EXCEPT !.pwd = password, !.blind = r, !.esk = esk,
                         !.nonceU = nonce, !.ke1 = Some(ke1)],
         msg |-> ke1]

ErrAkeInvalidServerMac == <<"invalid server mac">>

\* ake.Client.Finalize without the comparison of the server MAC.
AkeClientFinalize_unchecked(c, clientIdentity, clientSecretKey, serverIdentity, serverPublicKey, ke2) ==
    The({ IF r.err # NoErr
          THEN [err |-> r.err, ke3 |-> None, c |-> c]
          ELSE [err |-> NoErr, ke3 |-> Some([Mac |-> r.clientMac]),
                c |-> [c EXCEPT !.hash = r.hash,
                                !.sessionSecret = r.sessionSecret]]
          : r \in {core3DH(client, c.p, c.hash,
                           [esk |-> c.esk, secretKey |-> clientSecretKey,
                            peerEpk |-> ke2.EpkS,
                            peerPublicKey |-> serverPublicKey],
                           clientIdentity, serverIdentity, c.ke1[1], ke2)} })

\* ake.Client.Finalize
AkeClientFinalize(c, clientIdentity, clientSecretKey, serverIdentity, serverPublicKey, ke2) ==
    The({ IF r.err # NoErr
          THEN [err |-> r.err, ke3 |-> None, c |-> c]
          ELSE IF ~MacEqual(r.serverMac, ke2.Mac)
          THEN [err |-> ErrAkeInvalidServerMac, ke3 |-> None,
                c |-> [c EXCEPT !.hash = r.hash]]
          ELSE [err |-> NoErr, ke3 |-> Some([Mac |-> r.clientMac]),
                c |-> [c EXCEPT !.hash = r.hash,
                                !.sessionSecret = r.sessionSecret]]
          : r \in {core3DH(client, c.p, c.hash,
                           [esk |-> c.esk, secretKey |-> clientSecretKey,
                            peerEpk |-> ke2.EpkS,
                            peerPublicKey |-> serverPublicKey],
                           clientIdentity, serverIdentity, c.ke1[1], ke2)} })

\* Client.Finish
ClientFinish(c, idc, ids, ke2) ==
    The({ IF fin.err # NoErr
          THEN [err |-> fin.err, ke3 |-> None, exportKey |-> Nil, c |-> c]
          ELSE IF BLen(ke2.MaskedResponse) # c.p.AkePointLength + c.p.EnvelopeSize
          THEN [err |-> <<"invalid masked response length">>,
                ke3 |-> None, exportKey |-> Nil, c |-> c]
          ELSE The({ The({ IF rec.err # NoErr
                           THEN [err |-> Wrap("recover envelope", rec.err),
                                 ke3 |-> None, exportKey |-> Nil, c |-> c]
                           ELSE The({ IF a.err # NoErr
                                      THEN [err |-> Wrap(" AKE finalization",
                                                         a.err),
                                            ke3 |-> None, exportKey |-> Nil,
                                            c |-> a.c]
                                      ELSE [err |-> NoErr, ke3 |-> a.ke3,
                                            exportKey |-> rec.exportKey,
                                            c |-> a.c]
                                      : a \in {AkeClientFinalize(c,
                                                   IF idc = Nil THEN rec.pkc
                                                   ELSE idc,
                                                   rec.sk,
                                                   IF ids = Nil
                                                   THEN Take(clear,
                                                            c.p.AkePointLength)
                                                   ELSE ids,
                                                   Take(clear,
                                                        c.p.AkePointLength),
                                                   ke2)} })
                           : rec \in {RecoverEnvelope(c.p, c.mode, randomizedPwd,
                                          Take(clear, c.p.AkePointLength),
                                          idc, ids,
                                          Drop(clear, c.p.AkePointLength))} })
                     : clear \in {MaskResponse(c.p,
                                      MaskingKeyOf(c.p, randomizedPwd),
                                      ke2.MaskingNonce, ke2.MaskedResponse)} })
          : fin \in {OprfFinalize(c.p, c.pwd, c.blind, ke2.Data)},
            randomizedPwd \in {BuildPRK(c.p, OprfFinalize(c.p, c.pwd, c.blind,
                                                          ke2.Data).m)} })

ClientSessionKey(c) == c.sessionSecret

(***************************************************************************)
(* The environment: what the callers of the library supply.                *)
(***************************************************************************)
Passwords == {Bytes(<<"pw", i>>, 8) : i \in 1 .. NumPasswords}

\* Scalars the random source may return, by place of use.
RegBlindChoices == {2}

LoginBlindChoices == {3}

ClientEskChoices == {4}

ServerEskChoices == {2, 5}

ClientKeyChoices == {4, 6}

ServerKeyChoices == {3}

Nonce(p, i) == Bytes(<<"nonce", i>>, p.NonceLen)

OprfSeed == Bytes(<<"seed", 1>>, 32)

CredId(i) == Bytes(<<"cred", i>>, 32)

ClientIdent == Bytes(<<"id", 1>>, 6)

ServerIdent == Bytes(<<"id", 2>>, 6)

\* The record a server uses for an unknown credential identifier.
FakeRecord(c) ==
    [CredentialIdentifier |-> CredId(2), ClientIdentity |-> Nil,
     PublicKey |-> KeyGen(c.Group, 5).pk,
     MaskingKey |-> Bytes(<<"rand", 1>>, HashSize(c.Hash)),
     Envelope |-> GetFakeEnvelope(c), TestMaskNonce |-> Nil]

InitOut ==
    [reg |-> [pwd |-> Nil, reqKind |-> "", respCalled |-> FALSE,
              respErr |-> NoErr, finCalled |-> FALSE, finErr |-> NoErr,
              exportKey |-> Nil, skc |-> Nil, stored |-> FALSE,
              storeErr |-> NoErr],
     login |-> [pwd |-> Nil],
     init |-> [called |-> FALSE, kind |-> "", recKind |-> "", err |-> NoErr,
               ke2 |-> None, sessionKey |-> Nil, expectedMac |-> Nil],
     cfin |-> [called |-> FALSE, kind |-> "", err |-> NoErr, ke3 |-> None,
               exportKey |-> Nil],
     fin |-> [count |-> 0, kind |-> "", mac |-> Nil, err |-> NoErr,
              afterInit |-> FALSE, rejected |-> FALSE]]

CalcIdle ==
    [done |-> FALSE, eskC |-> 1, skC |-> 1, eskS |-> 1, skS |-> 1,
     cli |-> [err |-> NoErr, ikm |-> Nil], srv |-> [err |-> NoErr, ikm |-> Nil]]

Init ==
    /\ conf \in {[DefaultConfiguration EXCEPT !.Mode = m] : m \in {Internal, External}}
    /\ cli = NewClient(conf)
    /\ srv = NewServer(conf)
    /\ net = [rreq |-> None, rresp |-> None, rupl |-> None,
              ke1 |-> None, ke2 |-> None, ke3 |-> None]
    /\ \E explicit \in BOOLEAN, k \in ServerKeyChoices :
          db = [sks |-> KeyGen(conf.Group, k).sk,
                pks |-> KeyGen(conf.Group, k).pk,
                idc |-> IF explicit THEN ClientIdent ELSE Nil,
                ids |-> IF explicit THEN ServerIdent ELSE Nil,
                rec |-> None]
    /\ out = InitOut
    /\ calc = CalcIdle

(***************************************************************************)
(* Registration.                                                           *)
(***************************************************************************)
\* The client starts a registration with password pw.
RegistrationInit ==
    /\ net.rreq = None
    /\ net.ke1 = None
    /\ \E pw \in Passwords, r \in RegBlindChoices :
          \E x \in {ClientRegistrationInit(cli, pw, r)} :
              /\ cli' = x.c
              /\ net' = [net EXCEPT !.rreq = Some(x.msg)]
              /\ out' = [out EXCEPT !.reg.pwd = pw]
    /\ UNCHANGED <<conf, srv, db, calc>>

\* The server receives the request (as sent, or with a blinded element that
\* is no group element) and answers it.
RegistrationResponse ==
    /\ net.rreq # None
    /\ ~out.reg.respCalled
    /\ \E kind \in {"honest", "badElement"} :
          LET sent == IF kind = "honest" THEN net.rreq[1]
                      ELSE [Data |-> BadElement(srv.p.Group)]
              m1 == DeserializeRegistrationRequest(srv.p,
                        RegistrationRequestSerialize(sent))
          IN  \E r \in {IF m1.err # NoErr THEN [err |-> m1.err, msg |-> None]
                         ELSE ServerRegistrationResponse(srv.p, m1.msg[1],
                                  db.pks, CredId(1), OprfSeed)} :
                  /\ net' = [net EXCEPT !.rresp = r.msg]
                  /\ out' = [out EXCEPT !.reg.reqKind = kind,
                                        !.reg.respCalled = TRUE,
                                        !.reg.respErr = r.err]
    /\ UNCHANGED <<conf, cli, srv, db, calc>>

\* The client finishes the registration; in External mode it brings its own
\* secret key.
RegistrationFinalize ==
    /\ net.rresp # None
    /\ ~out.reg.finCalled
    /\ \E k \in IF conf.Mode = External THEN ClientKeyChoices ELSE {1} :
          LET skc == IF conf.Mode = External THEN KeyGen(cli.p.Group, k).sk
                     ELSE Nil
              m2 == DeserializeRegistrationResponse(cli.p,
                        RegistrationResponseSerialize(net.rresp[1]))
              creds == [Client |-> db.idc, Server |-> db.ids,
                        TestEnvNonce |-> Nil]
          IN  \E r \in {IF m2.err # NoErr
                         THEN [err |-> m2.err, upload |-> None,
                               exportKey |-> Nil]
                         ELSE ClientRegistrationFinalize(cli, skc, creds,
                                  m2.msg[1], Nonce(cli.p, 40))} :
                  /\ net' = [net EXCEPT !.rupl = r.upload]
                  /\ out' = [out EXCEPT !.reg.finCalled = TRUE,
                                        !.reg.finErr = r.err,
                                        !.reg.exportKey = r.exportKey,
                                        !.reg.skc = skc]
    /\ UNCHANGED <<conf, cli, srv, db, calc>>

\* The server stores the uploaded record under the credential identifier.
StoreRecord ==
    /\ net.rupl # None
    /\ ~out.reg.stored
    /\ \E m3 \in {DeserializeRegistrationUpload(srv.p,
                       RegistrationUploadSerialize(net.rupl[1]))} :
           /\ out' = [out EXCEPT !.reg.stored = TRUE, !.reg.storeErr = m3.err]
           /\ db' = IF m3.err # NoErr THEN db
                    ELSE [db EXCEPT !.rec =
                            Some([CredentialIdentifier |-> CredId(1),
                                  ClientIdentity |-> db.idc,
                                  PublicKey |-> m3.msg[1].PublicKey,
                                  MaskingKey |-> m3.msg[1].MaskingKey,
                                  Envelope |-> m3.msg[1].Envelope,
                                  TestMaskNonce |-> Nil])]
    /\ UNCHANGED <<conf, cli, srv, net, calc>>

(***************************************************************************)
(* Login.                                                                  *)
(***************************************************************************)
\* No registration is under way: none was started, or the one started has
\* ended (with a stored record or with an error).
RegistrationIdle ==
    \/ net.rreq = None
    \/ out.reg.stored
    \/ (out.reg.respCalled /\ out.reg.respErr # NoErr)
    \/ (out.reg.finCalled /\ out.reg.finErr # NoErr)

\* The client starts a login with password pw.
LoginInit ==
    /\ net.ke1 = None
    /\ RegistrationIdle
    /\ \E pw \in Passwords, r \in LoginBlindChoices, esk \in ClientEskChoices :
          \E x \in {ClientInit(cli, pw, r, esk, Nonce(cli.p, 30))} :
              /\ cli' = x.c
              /\ net' = [net EXCEPT !.ke1 = Some(x.msg)]
              /\ out' = [out EXCEPT !.login.pwd = pw]
    /\ UNCHANGED <<conf, srv, db, calc>>

\* The record the server looks up: the registered one, or the fake record of
\* an unknown credential identifier.
RecordOf(recKind) == IF recKind = "registered" THEN db.rec[1] ELSE FakeRecord(conf)

\* The server receives KE1 (as sent, or with a blinded element that is no
\* group element) and answers with KE2.
ServerInitCall ==
    /\ net.ke1 # None
    /\ ~out.init.called
    /\ \E kind \in {"honest", "badElement"}, recKind \in {"registered", "fake"},
          esk \in ServerEskChoices :
          LET sent == IF kind = "honest" THEN net.ke1[1]
                      ELSE [net.ke1[1] EXCEPT !.Data = BadElement(srv.p.Group)]
              m4 == DeserializeKE1(srv.p, KE1Serialize(sent))
              rnd == [maskingNonce |-> Nonce(srv.p, 10), esk |-> esk,
                      nonce |-> Nonce(srv.p, 20)]
          IN  /\ recKind = "registered" => db.rec # None
              /\ \E r \in {IF m4.err # NoErr
                            THEN [err |-> m4.err, ke2 |-> None, s |-> srv]
                            ELSE ServerInit(srv, m4.msg[1], db.ids, db.sks,
                                     db.pks, OprfSeed, RecordOf(recKind), rnd)} :
                    /\ srv' = r.s
                    /\ net' = [net EXCEPT !.ke2 = r.ke2]
                    /\ out' = [out EXCEPT
                                 !.init = [called |-> TRUE, kind |-> kind,
                                           recKind |-> recKind, err |-> r.err,
                                           ke2 |-> r.ke2,
                                           sessionKey |-> r.s.sessionSecret,
                                           expectedMac |-> r.s.clientMac],
                                 !.fin.afterInit = FALSE,
                                 !.fin.rejected = FALSE]
    /\ UNCHANGED <<conf, cli, db, calc>>

\* What reaches the client in place of the server's KE2.
KE2Received(kind, ke2) ==
    CASE kind = "mac" -> [ke2 EXCEPT !.Mac = FlipByte0(ke2.Mac)]
      [] kind = "envTag" ->
            LET rec == RecordOf(out.init.recKind)
                n == BLen(rec.Envelope) - HashSize(srv.p.MAC)
                env == Concat(Take(rec.Envelope, n),
                              FlipByte0(Drop(rec.Envelope, n)))
            IN  [ke2 EXCEPT !.MaskedResponse =
                    MaskResponse(srv.p, rec.MaskingKey, ke2.MaskingNonce,
                                 Concat(db.pks, env))]
      [] kind = "maskedShort" ->
            [ke2 EXCEPT !.MaskedResponse =
                Bytes(<<"rand", 3>>, cli.p.AkePointLength + cli.p.EnvelopeSize - 1)]
      [] kind = "maskedLong" ->
            [ke2 EXCEPT !.MaskedResponse =
                Bytes(<<"rand", 3>>, cli.p.AkePointLength + cli.p.EnvelopeSize + 1)]
      [] kind = "badEvaluation" ->
            [Data |-> BadElement(cli.p.Group), MaskingNonce |-> Nil,
             MaskedResponse |-> Nil, NonceS |-> Nil, EpkS |-> Nil, Mac |-> Nil]
      [] OTHER -> ke2

\* The kinds of KE2 that a caller builds in memory and hands to Client.Finish
\* without passing them through the parser.
UnparsedKinds == {"maskedShort", "maskedLong", "badEvaluation"}

\* The client receives KE2 (as sent, with an altered server MAC, or with an
\* altered envelope authentication tag under the right mask) and finishes; or
\* Client.Finish is handed a KE2 whose masked response has a wrong length.
ClientFinishCall ==
    /\ net.ke2 # None
    /\ ~out.cfin.called
    /\ \E kind \in {"honest", "mac", "envTag"} \cup UnparsedKinds :
          \E m5 \in {IF kind \in UnparsedKinds
                      THEN [err |-> NoErr,
                            msg |-> Some(KE2Received(kind, net.ke2[1]))]
                      ELSE DeserializeKE2(cli.p,
                               KE2Serialize(KE2Received(kind, net.ke2[1])))} :
          \E r \in {IF m5.err # NoErr
                    THEN [err |-> m5.err, ke3 |-> None, exportKey |-> Nil,
                          c |-> cli]
                    ELSE ClientFinish(cli, db.idc, db.ids, m5.msg[1])} :
              /\ cli' = r.c
              /\ net' = [net EXCEPT !.ke3 = r.ke3]
              /\ out' = [out EXCEPT
                           !.cfin = [called |-> TRUE, kind |-> kind,
                                     err |-> r.err, ke3 |-> r.ke3,
                                     exportKey |-> r.exportKey]]
    /\ UNCHANGED <<conf, srv, db, calc>>

\* The KE3 handed to Server.Finish.
KE3Received(kind) ==
    CASE kind = "honest" -> net.ke3[1]
      [] kind = "flipped" -> [Mac |-> FlipByte0(net.ke3[1].Mac)]
      [] kind = "random" -> [Mac |-> Bytes(<<"rand", 2>>, HashSize(srv.p.MAC))]
      [] OTHER -> [Mac |-> Nil]

\* Server.Finish is called: with the client's KE3 (as sent, or with an
\* altered MAC), or with a KE3 of the caller's making.
ServerFinishCall ==
    /\ out.fin.count < MaxFinish
    /\ \E kind \in {"honest", "flipped", "random", "empty"} :
          /\ kind \in {"honest", "flipped"} => net.ke3 # None
          /\ \E ke3 \in {KE3Received(kind)} :
             \E err \in {ServerFinish(srv, ke3)},
                afterInit \in {out.init.called /\ out.init.err = NoErr} :
                 out' = [out EXCEPT
                           !.fin = [count |-> out.fin.count + 1, kind |-> kind,
                                    mac |-> ke3.Mac, err |-> err,
                                    afterInit |-> afterInit,
                                    rejected |-> out.fin.rejected
                                        \/ (afterInit /\ err # NoErr)]]
    /\ UNCHANGED <<conf, cli, srv, net, db, calc>>

Next ==
    \/ RegistrationInit
    \/ RegistrationResponse
    \/ RegistrationFinalize
    \/ StoreRecord
    \/ LoginInit
    \/ ServerInitCall
    \/ ClientFinishCall
    \/ ServerFinishCall

Spec == Init /\ [][Next]_vars

(***************************************************************************)
(* The 3DH input keying material on its own: both sides of one exchange,   *)
(* for every choice of the four secret scalars.                            *)
(***************************************************************************)
InitIkm ==
    /\ conf = DefaultConfiguration
    /\ cli = NewClient(conf)
    /\ srv = NewServer(conf)
    /\ net = [rreq |-> None, rresp |-> None, rupl |-> None,
              ke1 |-> None, ke2 |-> None, ke3 |-> None]
    /\ db = [sks |-> Nil, pks |-> Nil, idc |-> Nil, ids |-> Nil, rec |-> None]
    /\ out = InitOut
    /\ \E eskC \in Scalars, skC \in Scalars, eskS \in Scalars, skS \in Scalars :
          calc = [CalcIdle EXCEPT !.eskC = eskC, !.skC = skC,
                                  !.eskS = eskS, !.skS = skS]

\* The client calls ikm with the server's public keys, the server with the
\* client's, each as the bytes the peer serialized.
ApplyIkm ==
    /\ ~calc.done
    /\ calc' = [calc EXCEPT
                  !.done = TRUE,
                  !.cli = ikm(client, conf.Group, calc.eskC, calc.skC,
                              KeyGen(conf.Group, calc.eskS).pk,
                              KeyGen(conf.Group, calc.skS).pk),
                  !.srv = ikm(server, conf.Group, calc.eskS, calc.skS,
                              KeyGen(conf.Group, calc.eskC).pk,
                              KeyGen(conf.Group, calc.skC).pk)]
    /\ UNCHANGED <<conf, cli, srv, net, db, out>>

SpecIkm == InitIkm /\ [][ApplyIkm]_vars

(***************************************************************************)
(* Observations used by the properties below.                              *)
(***************************************************************************)
\* The registration ran to the end and its record is stored.
Registered == out.reg.stored /\ out.reg.storeErr = NoErr

\* The password typed at login is the registered one.
SamePassword == Registered /\ out.login.pwd = out.reg.pwd

\* Server.Init was called with the KE1 the client sent and the record of the
\* registration.
HonestInit ==
    /\ out.init.called
    /\ out.init.kind = "honest"
    /\ out.init.recKind = "registered"

\* Client.Finish was called with the KE2 the server sent, after HonestInit,
\* by a client that typed the registered password.
HonestClientFinish ==
    /\ HonestInit
    /\ SamePassword
    /\ out.cfin.called
    /\ out.cfin.kind = "honest"

\* Server.Finish has been called after a successful Server.Init.
FinishedAfterInit == out.fin.count > 0 /\ out.fin.afterInit

(***************************************************************************)
(* Properties.                                                             *)
(***************************************************************************)
\* C1: registration followed by a login with the same password succeeds in
\* both modes: no step returns an error, the export key of
\* Client.RegistrationFinalize equals the one of Client.Finish, and the
\* client's session key equals the server's.
C1_RoundTrip ==
    /\ (out.reg.respCalled /\ out.reg.reqKind = "honest")
          => (out.reg.respErr = NoErr /\ net.rresp # None)
    /\ out.reg.finCalled => (out.reg.finErr = NoErr /\ net.rupl # None)
    /\ out.reg.stored => out.reg.storeErr = NoErr
    /\ HonestInit => (out.init.err = NoErr /\ out.init.ke2 # None)
    /\ HonestClientFinish =>
          /\ out.cfin.err = NoErr
          /\ out.cfin.ke3 # None
          /\ out.cfin.exportKey # Nil
          /\ out.cfin.exportKey = out.reg.exportKey
          /\ ClientSessionKey(cli) # Nil
          /\ ClientSessionKey(cli) = ServerSessionKey(srv)
    /\ (HonestClientFinish /\ out.fin.count > 0 /\ out.fin.kind = "honest")
          => out.fin.err = NoErr

\* A complete External-mode registration and login, accepted by the server.
C1_Witness ==
    /\ conf.Mode = External
    /\ HonestClientFinish
    /\ out.fin.count > 0
    /\ out.fin.kind = "honest"
    /\ out.fin.err = NoErr
    /\ out.cfin.exportKey = out.reg.exportKey
    /\ ClientSessionKey(cli) = ServerSessionKey(srv)
    /\ ClientSessionKey(cli) # Nil

\* C2: client and server end a login with the same session key only when the
\* password typed at login is the registered one, the server used the record
\* of that registration and both MAC checks pass; with a wrong password the
\* login never succeeds.
C2_SameKeyOnlyWhenHonest ==
    /\ (out.cfin.called /\ ClientSessionKey(cli) # Nil
           /\ ClientSessionKey(cli) = ServerSessionKey(srv))
          => /\ SamePassword
             /\ out.init.recKind = "registered"
             /\ out.cfin.err = NoErr
             /\ net.ke3 # None
             /\ net.ke3[1].Mac = ServerExpectedMAC(srv)
    /\ (FinishedAfterInit /\ out.fin.err = NoErr)
          => /\ SamePassword
             /\ out.init.recKind = "registered"
             /\ out.cfin.called
             /\ out.cfin.err = NoErr
             /\ ClientSessionKey(cli) = ServerSessionKey(srv)
    /\ (out.cfin.called /\ ~SamePassword)
          => /\ out.cfin.err # NoErr
             /\ out.cfin.ke3 = None
             /\ ClientSessionKey(cli) = Nil

\* A login with a password other than the registered one, against the record
\* of the registration, has been refused by the client.
C2_Witness ==
    /\ Registered
    /\ out.login.pwd # out.reg.pwd
    /\ HonestInit
    /\ out.init.err = NoErr
    /\ out.cfin.called
    /\ out.cfin.kind = "honest"
    /\ out.cfin.err # NoErr

\* C3: Server.Finish returns nil exactly when the MAC of ke3 equals the
\* expected client MAC computed by the preceding Server.Init, and otherwise
\* returns ErrAkeInvalidClientMac.
C3_FinishIffExpectedMac ==
    FinishedAfterInit =>
        /\ out.init.expectedMac # Nil
        /\ ServerExpectedMAC(srv) = out.init.expectedMac
        /\ (out.fin.err = NoErr) <=> (out.fin.mac = out.init.expectedMac)
        /\ (out.fin.mac # out.init.expectedMac)
              => out.fin.err = ErrAkeInvalidClientMac

\* Server.Finish has refused the client's KE3 with its first MAC byte flipped.
C3_Witness ==
    /\ FinishedAfterInit
    /\ out.fin.kind = "flipped"
    /\ out.fin.mac # out.init.expectedMac
    /\ out.fin.err = ErrAkeInvalidClientMac

\* C4: when the server MAC of KE2 is altered, Client.Finish returns the
\* invalid-server-MAC error and yields no KE3, no export key and no session
\* key.
C4_AlteredServerMac ==
    (out.cfin.called /\ out.cfin.kind = "mac") =>
        /\ out.cfin.err # NoErr
        /\ out.cfin.ke3 = None
        /\ net.ke3 = None
        /\ out.cfin.exportKey = Nil
        /\ ClientSessionKey(cli) = Nil
        /\ (HonestInit /\ SamePassword)
              => out.cfin.err = Wrap(" AKE finalization", ErrAkeInvalidServerMac)

\* The client has refused a KE2 that differs from the server's in its MAC only.
C4_Witness ==
    /\ HonestInit
    /\ SamePassword
    /\ out.cfin.called
    /\ out.cfin.kind = "mac"
    /\ out.cfin.err = Wrap(" AKE finalization", ErrAkeInvalidServerMac)

\* C5: when the envelope's authentication tag is altered and the masking is
\* correct, Client.Finish returns the invalid-envelope-authentication-tag
\* error and yields no KE3 and no export key.
C5_AlteredEnvelopeTag ==
    (out.cfin.called /\ out.cfin.kind = "envTag") =>
        /\ out.cfin.err # NoErr
        /\ out.cfin.ke3 = None
        /\ net.ke3 = None
        /\ out.cfin.exportKey = Nil
        /\ (HonestInit /\ SamePassword)
              => out.cfin.err = <<"recover envelope",
                                  "invalid envelope authentication tag">>

\* The client has refused a KE2 whose masked response hides the registered
\* envelope with an altered authentication tag.
C5_Witness ==
    /\ HonestInit
    /\ SamePassword
    /\ out.cfin.called
    /\ out.cfin.kind = "envTag"
    /\ out.cfin.err = <<"recover envelope", "invalid envelope authentication tag">>

\* C6: Server.Finish called before any successful Server.Init is an error for
\* every KE3, the one with an empty Mac included: it never returns nil.
C6_FinishBeforeInitFails ==
    (out.fin.count > 0 /\ ~out.fin.afterInit) => out.fin.err # NoErr

\* C7: after Server.Finish has rejected a KE3, Server.SessionKey() does not
\* return the session key computed by Server.Init.
C7_NoSessionKeyAfterReject ==
    out.fin.rejected => ServerSessionKey(srv) # out.init.sessionKey

\* C8: a client-MAC mismatch is fatal for the session: once Server.Finish
\* has rejected a KE3, no later Server.Finish on this session returns nil.
C8_RejectIsFatal ==
    out.fin.rejected => out.fin.err # NoErr

\* C9: a blinded element that is no valid group element makes
\* Server.RegistrationResponse and Server.Init return an error and no message,
\* and Server.Init then stores no expected MAC and no session key.
C9_BadBlindedElement ==
    /\ (out.reg.respCalled /\ out.reg.reqKind = "badElement")
          => /\ out.reg.respErr = <<" RegistrationResponse",
                                    "can't evaluate input ",
                                    "could not decode element">>
             /\ net.rresp = None
    /\ (out.init.called /\ out.init.kind = "badElement")
          => /\ out.init.err = <<" credentialResponse", "oprfResponse",
                                 "can't evaluate input ",
                                 "could not decode element">>
             /\ out.init.ke2 = None
             /\ net.ke2 = None
             /\ out.init.expectedMac = Nil
             /\ out.init.sessionKey = Nil
             /\ ServerExpectedMAC(srv) = Nil
             /\ ServerSessionKey(srv) = Nil

\* Server.Init has refused a KE1 with a bad blinded element, for a registered
\* client.
C9_Witness ==
    /\ out.init.called
    /\ out.init.kind = "badElement"
    /\ out.init.recKind = "registered"
    /\ out.init.err # NoErr
    /\ ServerSessionKey(srv) = Nil

\* C10: for all key pairs the client's ikm equals the server's, component by
\* component: (epk_s x esk_c, pk_s x esk_c, epk_s x sk_c) against
\* (epk_c x esk_s, epk_c x sk_s, pk_c x esk_s).
C10_IkmAgree ==
    calc.done =>
        /\ calc.cli.err = NoErr
        /\ calc.srv.err = NoErr
        /\ BLen(calc.cli.ikm) = 3 * PointLength(conf.Group)
        /\ \A i \in 0 .. 2 :
              Slice(calc.cli.ikm, i * PointLength(conf.Group),
                    (i + 1) * PointLength(conf.Group))
                = Slice(calc.srv.ikm, i * PointLength(conf.Group),
                        (i + 1) * PointLength(conf.Group))
        /\ calc.cli.ikm = calc.srv.ikm

\* Both sides have computed their ikm from long-term keys that differ from
\* the ephemeral ones and from each other.
C10_Witness ==
    /\ calc.done
    /\ calc.eskC = 2 /\ calc.skC = 3 /\ calc.eskS = 4 /\ calc.skS = 5
    /\ calc.cli.ikm = calc.srv.ikm
    /\ calc.cli.ikm # Nil

(***************************************************************************)
(* Repeated logins against one record: the registration and the login of   *)
(* the callers, each run from fresh Client and Server instances.           *)
(***************************************************************************)
MaxLogins == 2

\* testRegistration: keys holds the server's key pair and the identities, k
\* the scalar of the client's own key (External mode).
testRegistration(c, pw, keys, k) ==
    The({ The({ IF m1.err # NoErr
          THEN [err |-> m1.err, record |-> None, exportKey |-> Nil]
          ELSE The({ IF respReg.err # NoErr
          THEN [err |-> respReg.err, record |-> None, exportKey |-> Nil]
          ELSE The({ IF m2.err # NoErr
          THEN [err |-> m2.err, record |-> None, exportKey |-> Nil]
          ELSE The({ IF fin.err # NoErr
          THEN [err |-> fin.err, record |-> None, exportKey |-> Nil]
          ELSE The({ IF m3.err # NoErr
          THEN [err |-> m3.err, record |-> None, exportKey |-> Nil]
          ELSE [err |-> NoErr,
                record |-> Some([CredentialIdentifier |-> CredId(1),
                                 ClientIdentity |-> keys.idc,
                                 PublicKey |-> m3.msg[1].PublicKey,
                                 MaskingKey |-> m3.msg[1].MaskingKey,
                                 Envelope |-> m3.msg[1].Envelope,
                                 TestMaskNonce |-> Nil]),
                exportKey |-> fin.exportKey]
          : m3 \in {DeserializeRegistrationUpload(toInternal(c),
                        RegistrationUploadSerialize(fin.upload[1]))} })
          : fin \in {ClientRegistrationFinalize(x.c,
                        IF c.Mode = External THEN KeyGen(c.Group, k).sk ELSE Nil,
                        [Client |-> keys.idc, Server |-> keys.ids,
                         TestEnvNonce |-> Nil],
                        m2.msg[1], Nonce(toInternal(c), 40))} })
          : m2 \in {DeserializeRegistrationResponse(toInternal(c),
                        RegistrationResponseSerialize(respReg.msg[1]))} })
          : respReg \in {ServerRegistrationResponse(toInternal(c), m1.msg[1],
                            keys.pks, CredId(1), OprfSeed)} })
          : m1 \in {DeserializeRegistrationRequest(toInternal(c),
                        RegistrationRequestSerialize(x.msg))} })
          : x \in {ClientRegistrationInit(NewClient(c), pw,
                                          The(RegBlindChoices))} })

\* testAuthentication: rnd holds what the two sides sample during the login
\* (eskC, nonceU, eskS, nonceS).
testAuthentication(c, pw, record, keys, rnd) ==
    The({ The({ IF m4.err # NoErr
          THEN [err |-> m4.err, exportKey |-> Nil, clientKey |-> Nil,
                serverKey |-> Nil]
          ELSE The({ IF i.err # NoErr
          THEN [err |-> i.err, exportKey |-> Nil, clientKey |-> Nil,
                serverKey |-> Nil]
          ELSE The({ IF m5.err # NoErr
          THEN [err |-> m5.err, exportKey |-> Nil, clientKey |-> Nil,
                serverKey |-> Nil]
          ELSE The({ IF f.err # NoErr
          THEN [err |-> f.err, exportKey |-> Nil, clientKey |-> Nil,
                serverKey |-> Nil]
          ELSE The({ IF m6.err # NoErr
          THEN [err |-> m6.err, exportKey |-> Nil, clientKey |-> Nil,
                serverKey |-> Nil]
          ELSE [err |-> ServerFinish(i.s, m6.msg[1]),
                exportKey |-> f.exportKey,
                clientKey |-> ClientSessionKey(f.c),
                serverKey |-> ServerSessionKey(i.s)]
          : m6 \in {DeserializeKE3(toInternal(c), KE3Serialize(f.ke3[1]))} })
          : f \in {ClientFinish(x.c, keys.idc, keys.ids, m5.msg[1])} })
          : m5 \in {DeserializeKE2(toInternal(c), KE2Serialize(i.ke2[1]))} })
          : i \in {ServerInit(NewServer(c), m4.msg[1], keys.ids, keys.sks,
                              keys.pks, OprfSeed, record,
                              [maskingNonce |-> Nonce(toInternal(c), 10),
                               esk |-> rnd.eskS,
                               nonce |-> Nonce(toInternal(c), 20 + rnd.nonceS)])} })
          : m4 \in {DeserializeKE1(toInternal(c), KE1Serialize(x.msg))} })
          : x \in {ClientInit(NewClient(c), pw, The(LoginBlindChoices),
                              rnd.eskC,
                              Nonce(toInternal(c), 30 + rnd.nonceU))} })

\* What the two sides may sample in one login.
LoginSamples ==
    {[eskC |-> a, eskS |-> b, nonceU |-> n[1], nonceS |-> n[2]] :
        a \in {2, 4}, b \in {3, 5}, n \in {<<1, 1>>, <<2, 1>>, <<1, 2>>}}

InitLogins ==
    /\ conf \in {[DefaultConfiguration EXCEPT !.Mode = m] : m \in {Internal, External}}
    /\ cli = NewClient(conf)
    /\ srv = NewServer(conf)
    /\ net = [rreq |-> None, rresp |-> None, rupl |-> None,
              ke1 |-> None, ke2 |-> None, ke3 |-> None]
    /\ \E k \in ServerKeyChoices :
          db = [sks |-> KeyGen(conf.Group, k).sk, pks |-> KeyGen(conf.Group, k).pk,
                idc |-> ClientIdent, ids |-> ServerIdent, rec |-> None]
    /\ out = InitOut
    /\ \E pw \in Passwords :
          calc = [pwd |-> pw, registered |-> FALSE, regErr |-> NoErr,
                  exportKey |-> Nil, logins |-> <<>>]

\* The registration of the password.
RunRegistration ==
    /\ ~calc.registered
    /\ \E k \in ClientKeyChoices :
       \E r \in {testRegistration(conf, calc.pwd, db, k)} :
          /\ calc' = [calc EXCEPT !.registered = TRUE, !.regErr = r.err,
                                  !.exportKey = r.exportKey]
          /\ db' = [db EXCEPT !.rec = r.record]
    /\ UNCHANGED <<conf, cli, srv, net, out>>

\* One more login with the registered password.
RunLogin ==
    /\ calc.registered
    /\ db.rec # None
    /\ Len(calc.logins) < MaxLogins
    /\ \E rnd \in LoginSamples :
       \E r \in {testAuthentication(conf, calc.pwd, db.rec[1], db, rnd)} :
          calc' = [calc EXCEPT !.logins = Append(@, [rnd |-> rnd, res |-> r])]
    /\ UNCHANGED <<conf, cli, srv, net, db, out>>

NextLogins == RunRegistration \/ RunLogin

SpecLogins == InitLogins /\ [][NextLogins]_vars

\* C11: every successful login with the registered password returns the
\* export key of the registration, and two logins that differ in an
\* ephemeral key or in a nonce end with different session keys.
C11_SameExportFreshSession ==
    /\ calc.registered => (calc.regErr = NoErr /\ calc.exportKey # Nil)
    /\ \A i \in 1 .. Len(calc.logins) :
          /\ calc.logins[i].res.err = NoErr
          /\ calc.logins[i].res.exportKey = calc.exportKey
          /\ calc.logins[i].res.clientKey # Nil
          /\ calc.logins[i].res.clientKey = calc.logins[i].res.serverKey
    /\ \A i \in 1 .. Len(calc.logins), j \in 1 .. Len(calc.logins) :
          (calc.logins[i].rnd # calc.logins[j].rnd)
             => /\ calc.logins[i].res.clientKey # calc.logins[j].res.clientKey
                /\ calc.logins[i].res.serverKey # calc.logins[j].res.serverKey

\* Two successful logins that differ in the server's nonce only.
C11_Witness ==
    /\ Len(calc.logins) = 2
    /\ calc.logins[1].rnd = [eskC |-> 2, eskS |-> 3, nonceU |-> 1, nonceS |-> 1]
    /\ calc.logins[2].rnd = [eskC |-> 2, eskS |-> 3, nonceU |-> 1, nonceS |-> 2]
    /\ calc.logins[1].res.err = NoErr
    /\ calc.logins[2].res.err = NoErr
    /\ calc.logins[1].res.exportKey = calc.logins[2].res.exportKey
    /\ calc.logins[1].res.clientKey # calc.logins[2].res.clientKey

\* The lengths of the fields of a KE2, in the order of its encoding.
KE2Layout(ke2) ==
    <<BLen(ke2.Data), BLen(ke2.MaskingNonce), BLen(ke2.MaskedResponse),
      BLen(ke2.NonceS), BLen(ke2.EpkS), BLen(ke2.Mac)>>

\* The layout of the KE2 of a registered user under configuration conf.
RegisteredLayout ==
    <<srv.p.OPRFPointLength, srv.p.NonceLen,
      srv.p.AkePointLength + srv.p.EnvelopeSize, srv.p.NonceLen,
      srv.p.AkePointLength, HashSize(srv.p.MAC)>>

\* C12: Server.Init with the fake record of an unknown credential identifier
\* (zero-filled envelope of EnvelopeSize bytes, random masking key) returns a
\* KE2 of the layout and length of a registered user's, and Client.Finish on
\* that KE2 fails with the invalid-envelope error.
C12_FakeRecord ==
    /\ (out.init.called /\ out.init.kind = "honest" /\ out.init.err = NoErr)
          => /\ out.init.ke2 # None
             /\ KE2Layout(out.init.ke2[1]) = RegisteredLayout
             /\ DeserializeKE2(cli.p, KE2Serialize(out.init.ke2[1]))
                   = [err |-> NoErr, msg |-> out.init.ke2]
    /\ (out.init.called /\ out.init.kind = "honest"
           /\ out.init.recKind = "fake")
          => /\ out.init.err = NoErr
             /\ IsZero(FakeRecord(conf).Envelope[1][1])
             /\ BLen(FakeRecord(conf).Envelope) = srv.p.EnvelopeSize
    /\ (out.init.called /\ out.init.kind = "honest"
           /\ out.init.recKind = "fake"
           /\ out.cfin.called /\ out.cfin.kind = "honest")
          => /\ out.cfin.err = <<"recover envelope",
                                 "invalid envelope authentication tag">>
             /\ out.cfin.ke3 = None
             /\ out.cfin.exportKey = Nil
             /\ ClientSessionKey(cli) = Nil

\* In External mode, with a registered record at hand, the server has answered
\* with the fake record and the client has refused the KE2.
C12_Witness ==
    /\ conf.Mode = External
    /\ Registered
    /\ out.init.called
    /\ out.init.kind = "honest"
    /\ out.init.recKind = "fake"
    /\ out.init.err = NoErr
    /\ KE2Layout(out.init.ke2[1]) = RegisteredLayout
    /\ out.cfin.called
    /\ out.cfin.kind = "honest"
    /\ out.cfin.err = <<"recover envelope", "invalid envelope authentication tag">>

\* C13: a KE2 whose MaskedResponse has a wrong length makes Client.Finish
\* return the invalid-length error, before the evaluated element of the OPRF
\* is decoded.
C13_LengthCheckedFirst ==
    (out.cfin.called
        /\ BLen(KE2Received(out.cfin.kind, net.ke2[1]).MaskedResponse)
              # cli.p.AkePointLength + cli.p.EnvelopeSize)
       => out.cfin.err = <<"invalid masked response length">>

(***************************************************************************)
(* The parsers on their own: every Deserialize function of a Client and of *)
(* a Server, on inputs of the prescribed length and around it.             *)
(***************************************************************************)
MaxDelta == 2

MessageKinds ==
    {"RegistrationRequest", "RegistrationResponse", "RegistrationUpload",
     "KE1", "KE2", "KE3"}

\* The Deserialize function of a Client or Server with parameters p.
Deserialize(kind, p, b) ==
    CASE kind = "RegistrationRequest" -> DeserializeRegistrationRequest(p, b)
      [] kind = "RegistrationResponse" -> DeserializeRegistrationResponse(p, b)
      [] kind = "RegistrationUpload" -> DeserializeRegistrationUpload(p, b)
      [] kind = "KE1" -> DeserializeKE1(p, b)
      [] kind = "KE2" -> DeserializeKE2(p, b)
      [] OTHER -> DeserializeKE3(p, b)

\* The length the wire format prescribes for a message under configuration c.
WireLength(kind, c) ==
    LET pt == PointLength(c.Group)
        env == c.NonceLen + HashSize(c.MAC)
                 + (IF c.Mode = External THEN ScalarLength(c.Group) ELSE 0)
    IN  CASE kind = "RegistrationRequest" -> pt
          [] kind = "RegistrationResponse" -> pt + pt
          [] kind = "RegistrationUpload" -> pt + HashSize(c.Hash) + env
          [] kind = "KE1" -> pt + c.NonceLen + pt
          [] kind = "KE2" -> pt + c.NonceLen + (pt + env) + c.NonceLen + pt
                               + HashSize(c.MAC)
          [] OTHER -> HashSize(c.MAC)

InitDeserialize ==
    /\ conf \in {[DefaultConfiguration EXCEPT !.Mode = m] : m \in {Internal, External}}
    /\ cli = NewClient(conf)
    /\ srv = NewServer(conf)
    /\ net = [rreq |-> None, rresp |-> None, rupl |-> None,
              ke1 |-> None, ke2 |-> None, ke3 |-> None]
    /\ db = [sks |-> Nil, pks |-> Nil, idc |-> Nil, ids |-> Nil, rec |-> None]
    /\ out = InitOut
    /\ \E kind \in MessageKinds, side \in {"client", "server"} :
       \E n \in {0} \cup {WireLength(kind, conf) + d : d \in (0 - MaxDelta) .. MaxDelta} :
          calc = [done |-> FALSE, kind |-> kind, side |-> side,
                  input |-> Bytes(<<"rand", 4>>, n),
                  res |-> [err |-> NoErr, msg |-> None]]

\* The Client or the Server parses the input.
ApplyDeserialize ==
    /\ ~calc.done
    /\ calc' = [calc EXCEPT
                  !.done = TRUE,
                  !.res = Deserialize(calc.kind,
                                      IF calc.side = "client" THEN cli.p ELSE srv.p,
                                      calc.input)]
    /\ UNCHANGED <<conf, cli, srv, net, db, out>>

SpecDeserialize == InitDeserialize /\ [][ApplyDeserialize]_vars

\* C14: every Deserialize function, of a Client and of a Server, returns the
\* invalid-message-length error for an input whose length is not the one
\* prescribed for the message, and a message for an input of that length only.
C14_StrictLength ==
    calc.done =>
        /\ (BLen(calc.input) # WireLength(calc.kind, conf))
              => (calc.res.err = ErrInvalidMessageLength /\ calc.res.msg = None)
        /\ (BLen(calc.input) = WireLength(calc.kind, conf))
              => (calc.res.err = NoErr /\ calc.res.msg # None)

\* A Client in External mode has refused a KE2 one byte longer than prescribed.
C14_Witness ==
    /\ calc.done
    /\ conf.Mode = External
    /\ calc.kind = "KE2"
    /\ calc.side = "client"
    /\ BLen(calc.input) = WireLength("KE2", conf) + 1
    /\ calc.res.err = ErrInvalidMessageLength

(***************************************************************************)
(* The AKE state of a Server, saved and restored: Server A (srv) runs Init, *)
(* a fresh Server B of the same configuration is given a state.            *)
(***************************************************************************)
\* Server A after Server.Init on the KE1 of a client that registered pw.
serverAfterInit(c, pw, keys, eskS) ==
    The({ The({ i.s
          : i \in {ServerInit(NewServer(c), x.msg, keys.ids, keys.sks, keys.pks,
                              OprfSeed, reg.record[1],
                              [maskingNonce |-> Nonce(toInternal(c), 10),
                               esk |-> eskS,
                               nonce |-> Nonce(toInternal(c), 20)])} })
          : x \in {ClientInit(NewClient(c), pw, The(LoginBlindChoices),
                              The(ClientEskChoices), Nonce(toInternal(c), 30))},
            reg \in {testRegistration(c, pw, keys, The(ClientKeyChoices))} })

\* The states handed to SetAKEState: the one Server A serializes, or bytes of
\* the caller's making of the right length or around it.
StateKinds ==
    {<<"serialized", 0>>, <<"empty", 0>>}
       \cup {<<"random", d>> : d \in (0 - MaxDelta) .. MaxDelta}

StateBytes(kind, a) ==
    CASE kind[1] = "serialized" -> SerializeState(a)
      [] kind[1] = "empty" -> Nil
      [] OTHER -> Bytes(<<"rand", 5>>,
                        HashSize(a.p.MAC) + HashSize(a.p.KDF) + kind[2])

\* The KE3 messages Server.Finish is asked about: with the MAC that Server a
\* expects, with that MAC altered, with an unrelated MAC, with none.
FinishProbes(a) ==
    {[Mac |-> ServerExpectedMAC(a)],
     [Mac |-> FlipByte0(Bytes(<<"rand", 6>>, HashSize(a.p.MAC)))],
     [Mac |-> Bytes(<<"rand", 6>>, HashSize(a.p.MAC))],
     [Mac |-> Nil]}

InitState ==
    /\ conf \in {[DefaultConfiguration EXCEPT !.Mode = m] : m \in {Internal, External}}
    /\ cli = NewClient(conf)
    /\ srv = NewServer(conf)
    /\ net = [rreq |-> None, rresp |-> None, rupl |-> None,
              ke1 |-> None, ke2 |-> None, ke3 |-> None]
    /\ \E explicit \in BOOLEAN, k \in ServerKeyChoices :
          db = [sks |-> KeyGen(conf.Group, k).sk, pks |-> KeyGen(conf.Group, k).pk,
                idc |-> IF explicit THEN ClientIdent ELSE Nil,
                ids |-> IF explicit THEN ServerIdent ELSE Nil, rec |-> None]
    /\ out = InitOut
    /\ \E pw \in Passwords :
          calc = [pwd |-> pw, inited |-> FALSE, set |-> FALSE, kind |-> <<"", 0>>,
                  state |-> Nil, err |-> NoErr,
                  before |-> NewServer(conf), b |-> NewServer(conf)]

\* Server A answers the KE1 of the registered client.
RunServerInit ==
    /\ ~calc.inited
    /\ \E eskS \in ServerEskChoices :
          srv' = serverAfterInit(conf, calc.pwd, db, eskS)
    /\ calc' = [calc EXCEPT !.inited = TRUE]
    /\ UNCHANGED <<conf, cli, net, db, out>>

\* SetAKEState is called on the fresh Server B.
SetAKEStateCall ==
    /\ ~calc.set
    /\ \E kind \in StateKinds :
       \E state \in {StateBytes(kind, srv)} :
       \E r \in {SetAKEState(calc.b, state)} :
          calc' = [calc EXCEPT !.set = TRUE, !.kind = kind, !.state = state,
                               !.err = r.err, !.before = calc.b, !.b = r.s]
    /\ UNCHANGED <<conf, cli, srv, net, db, out>>

NextState == RunServerInit \/ SetAKEStateCall

SpecState == InitState /\ [][NextState]_vars

\* C15: SetAKEState returns ErrInvalidState for a state whose length is not
\* MAC size + KDF size and then leaves expected MAC and session key as they
\* were; for a state of that length it installs, on a fresh Server, the first
\* MAC-size bytes as expected client MAC and the rest as session key.
C15_SetAKEState ==
    calc.set =>
        /\ (BLen(calc.state) # HashSize(conf.MAC) + HashSize(conf.KDF))
              => /\ calc.err = ErrInvalidState
                 /\ ServerExpectedMAC(calc.b) = ServerExpectedMAC(calc.before)
                 /\ ServerSessionKey(calc.b) = ServerSessionKey(calc.before)
        /\ (BLen(calc.state) = HashSize(conf.MAC) + HashSize(conf.KDF))
              => /\ calc.err = NoErr
                 /\ ServerExpectedMAC(calc.b)
                       = Take(calc.state, HashSize(conf.MAC))
                 /\ ServerSessionKey(calc.b)
                       = Drop(calc.state, HashSize(conf.MAC))

\* SetAKEState has refused a state one byte too long and has left the fresh
\* Server without an expected MAC.
C15_Witness ==
    /\ calc.set
    /\ calc.kind = <<"random", 1>>
    /\ calc.err = ErrInvalidState
    /\ ServerExpectedMAC(calc.b) = Nil

\* C16: after Server A has completed Init, a fresh Server B that is given
\* A's serialized state returns A's verdict from Finish for every KE3, A's
\* session key and A's expected MAC.
C16_StateRoundTrip ==
    (calc.inited /\ calc.set /\ calc.kind = <<"serialized", 0>>
        /\ calc.state = SerializeState(srv)) =>
        /\ calc.err = NoErr
        /\ ServerSessionKey(srv) # Nil
        /\ ServerSessionKey(calc.b) = ServerSessionKey(srv)
        /\ ServerExpectedMAC(calc.b) = ServerExpectedMAC(srv)
        /\ \A ke3 \in FinishProbes(srv) :
              ServerFinish(calc.b, ke3) = ServerFinish(srv, ke3)
        /\ ServerFinish(calc.b, [Mac |-> ServerExpectedMAC(srv)]) = NoErr

\* Server B holds the state that Server A serialized after its Init.
C16_Witness ==
    /\ calc.inited
    /\ calc.set
    /\ calc.kind = <<"serialized", 0>>
    /\ calc.state = SerializeState(srv)
    /\ calc.err = NoErr
    /\ ServerSessionKey(calc.b) = ServerSessionKey(srv)
    /\ ServerSessionKey(srv) # Nil

(***************************************************************************)
(* The encoding of a Configuration.  Here a byte string is the sequence of *)
(* its byte values and a Configuration holds its identifiers as numbers.   *)
(***************************************************************************)
confLength == 7

\* Group identifiers.
RistrettoSha512 == 1

P256Sha256 == 3

P384Sha512 == 4

P521Sha512 == 5

SupportedGroups == {RistrettoSha512, P256Sha256, P384Sha512, P521Sha512}

ErrConfigurationInvalidLength == <<"invalid encoded configuration length">>

\* encoding.OS2IP: the big-endian integer of a byte string.
RECURSIVE OS2IP(_)
OS2IP(b) ==
    IF Len(b) = 0 THEN 0
    ELSE OS2IP(SubSeq(b, 1, Len(b) - 1)) * 256 + b[Len(b)]

\* encoding.I2OSP(value, w) as byte values; it fails (panics) on a value that
\* does not fit w bytes.
I2OSPFits(value, w) == value >= 0 /\ value < 256 ^ w

I2OSPOctets(value, w) == [i \in 1 .. w |-> (value \div (256 ^ (w - i))) % 256]

\* Serialize with the KDF and MAC identifiers in each other's place.
ConfigurationSerialize_swapped(c) == IF ~I2OSPFits(c.NonceLen, 1) THEN [panic |-> TRUE, b |-> <<>>] ELSE [panic |-> FALSE, b |-> <<c.Group, c.MAC, c.KDF, c.Hash, c.MHF, c.Mode, I2OSPOctets(c.NonceLen, 1)[1]>>]

\* Configuration.Serialize
ConfigurationSerialize(c) ==
    IF ~I2OSPFits(c.NonceLen, 1)
    THEN [panic |-> TRUE, b |-> <<>>]
    ELSE [panic |-> FALSE,
          b |-> [i \in 1 .. confLength |->
                   CASE i = 1 -> c.Group
                     [] i = 2 -> c.KDF
                     [] i = 3 -> c.MAC
                     [] i = 4 -> c.Hash
                     [] i = 5 -> c.MHF
                     [] i = 6 -> c.Mode
                     [] OTHER -> I2OSPOctets(c.NonceLen, 1)[1]]]

\* DeserializeConfiguration refusing only inputs that are too short.
DeserializeConfiguration_atleast(encoded) == IF Len(encoded) < confLength THEN [err |-> ErrConfigurationInvalidLength, c |-> None] ELSE [err |-> NoErr, c |-> Some([Group |-> encoded[1], KDF |-> encoded[2], MAC |-> encoded[3], Hash |-> encoded[4], MHF |-> encoded[5], Mode |-> encoded[6], Context |-> Nil, NonceLen |-> OS2IP(SubSeq(encoded, 7, Len(encoded)))])]

\* DeserializeConfiguration
DeserializeConfiguration(encoded) ==
    IF Len(encoded) # confLength
    THEN [err |-> ErrConfigurationInvalidLength, c |-> None]
    ELSE [err |-> NoErr,
          c |-> Some([Group |-> encoded[1], KDF |-> encoded[2],
                      MAC |-> encoded[3], Hash |-> encoded[4],
                      MHF |-> encoded[5], Mode |-> encoded[6],
                      Context |-> Nil,
                      NonceLen |-> OS2IP(SubSeq(encoded, 7, Len(encoded)))])]

\* The identifier and length bytes the inputs are made of: recognised values,
\* values next to them, 0 and 255.
ByteSamples ==
    [Group |-> {0, RistrettoSha512, 2, P256Sha256}, KDF |-> {0, 2, 255},
     MAC |-> {2, 7}, Hash |-> {2}, MHF |-> {2, 3},
     Mode |-> {0, Internal, External, 3}, NonceLen |-> {0, 15, 16, 32, 255}]

ConfigurationSamples ==
    [Group : ByteSamples.Group, KDF : ByteSamples.KDF, MAC : ByteSamples.MAC,
     Hash : ByteSamples.Hash, MHF : ByteSamples.MHF, Mode : ByteSamples.Mode,
     Context : {Nil, Str("ctx")}, NonceLen : ByteSamples.NonceLen \cup {0 - 1, 256}]

\* The first n bytes of b, continued with the byte pad when b is shorter.
Resize(b, n, pad) == [i \in 1 .. n |-> IF i <= Len(b) THEN b[i] ELSE pad]

EncodedSamples ==
    {<<>>} \cup
    { Resize(<<g, 2, m, 2, 2, mode, n>>, confLength + d, pad) :
        g \in ByteSamples.Group, m \in ByteSamples.MAC, mode \in ByteSamples.Mode,
        n \in ByteSamples.NonceLen, d \in (0 - MaxDelta) .. MaxDelta, pad \in {0, 255} }

InitConfig ==
    /\ conf = DefaultConfiguration
    /\ cli = NewClient(conf)
    /\ srv = NewServer(conf)
    /\ net = [rreq |-> None, rresp |-> None, rupl |-> None,
              ke1 |-> None, ke2 |-> None, ke3 |-> None]
    /\ db = [sks |-> Nil, pks |-> Nil, idc |-> Nil, ids |-> Nil, rec |-> None]
    /\ out = InitOut
    /\ \/ \E encoded \in EncodedSamples :
             calc = [from |-> "bytes", done |-> FALSE, encoded |-> encoded,
                     c |-> None, err |-> NoErr, panic |-> FALSE, back |-> <<>>,
                     backc |-> None]
       \/ \E c \in ConfigurationSamples :
             calc = [from |-> "conf", done |-> FALSE, encoded |-> <<>>,
                     c |-> Some(c), err |-> NoErr, panic |-> FALSE,
                     back |-> <<>>, backc |-> None]

\* DeserializeConfiguration(encoded), and Serialize of the Configuration it
\* returns.
DeserializeConfigurationCall ==
    /\ calc.from = "bytes"
    /\ ~calc.done
    /\ \E r \in {DeserializeConfiguration(calc.encoded)} :
          IF r.err # NoErr
          THEN calc' = [calc EXCEPT !.done = TRUE, !.err = r.err, !.c = r.c]
          ELSE \E s \in {ConfigurationSerialize(r.c[1])} :
                  calc' = [calc EXCEPT !.done = TRUE, !.err = r.err, !.c = r.c,
                                       !.panic = s.panic, !.back = s.b]
    /\ UNCHANGED <<conf, cli, srv, net, db, out>>

\* c.Serialize(), and DeserializeConfiguration of the bytes it returns.
ConfigurationSerializeCall ==
    /\ calc.from = "conf"
    /\ ~calc.done
    /\ \E s \in {ConfigurationSerialize(calc.c[1])} :
          IF s.panic
          THEN calc' = [calc EXCEPT !.done = TRUE, !.panic = TRUE]
          ELSE \E r \in {DeserializeConfiguration(s.b)} :
                  calc' = [calc EXCEPT !.done = TRUE, !.encoded = s.b,
                                       !.err = r.err, !.backc = r.c]
    /\ UNCHANGED <<conf, cli, srv, net, db, out>>

NextConfig == DeserializeConfigurationCall \/ ConfigurationSerializeCall

SpecConfig == InitConfig /\ [][NextConfig]_vars

\* C17: DeserializeConfiguration returns ErrConfigurationInvalidLength and no
\* Configuration for every input whose length is not 7, and what
\* Configuration.Serialize returns is exactly 7 bytes: Group, KDF, MAC, Hash,
\* MHF, Mode, NonceLen, in this order.
C17_ConfigurationLength ==
    /\ (calc.done /\ calc.from = "bytes" /\ Len(calc.encoded) # 7)
          => (calc.err = ErrConfigurationInvalidLength /\ calc.c = None)
    /\ (calc.done /\ calc.from = "conf" /\ ~calc.panic)
          => /\ Len(calc.encoded) = 7
             /\ calc.encoded = <<calc.c[1].Group, calc.c[1].KDF, calc.c[1].MAC,
                                 calc.c[1].Hash, calc.c[1].MHF, calc.c[1].Mode,
                                 calc.c[1].NonceLen>>

\* An input of 8 bytes has been refused.
C17_Witness ==
    /\ calc.done
    /\ calc.from = "bytes"
    /\ Len(calc.encoded) = 8
    /\ calc.err = ErrConfigurationInvalidLength
    /\ calc.c = None

\* C18: for every 7-byte input b, DeserializeConfiguration(b) succeeds and
\* Serialize of its result is b; for every Configuration c with NonceLen in
\* 0..255, DeserializeConfiguration(c.Serialize()) succeeds and has the Group,
\* KDF, MAC, Hash, MHF, Mode and NonceLen of c.
C18_ConfigurationRoundTrip ==
    /\ (calc.done /\ calc.from = "bytes" /\ Len(calc.encoded) = 7)
          => /\ calc.err = NoErr
             /\ calc.c # None
             /\ ~calc.panic
             /\ calc.back = calc.encoded
    /\ (calc.done /\ calc.from = "conf" /\ calc.c[1].NonceLen \in 0 .. 255)
          => /\ ~calc.panic
             /\ calc.err = NoErr
             /\ calc.backc # None
             /\ \A f \in {"Group", "KDF", "MAC", "Hash", "MHF", "Mode", "NonceLen"} :
                   calc.backc[1][f] = calc.c[1][f]

\* A Configuration with different KDF and MAC identifiers, a context and
\* NonceLen 255 has been serialized and read back.
C18_Witness ==
    /\ calc.done
    /\ calc.from = "conf"
    /\ calc.c[1].NonceLen = 255
    /\ calc.c[1].KDF # calc.c[1].MAC
    /\ calc.c[1].Context # Nil
    /\ calc.backc # None
    /\ calc.backc[1].NonceLen = 255
    /\ calc.backc[1].KDF = calc.c[1].KDF

\* C19: every Configuration handed out satisfies the configuration invariant:
\* DefaultConfiguration and every Configuration that DeserializeConfiguration
\* returns have Mode Internal or External, a supported Group and NonceLen of
\* at least 16.
C19_ConfigurationInvariant ==
    /\ conf.Mode \in {Internal, External}
    /\ conf.Group \in {"RistrettoSha512", "P256Sha256", "P384Sha512", "P521Sha512"}
    /\ conf.NonceLen >= 16
    /\ (calc.done /\ calc.from = "bytes" /\ calc.err = NoErr)
          => /\ calc.c[1].Mode \in {Internal, External}
             /\ calc.c[1].Group \in SupportedGroups
             /\ calc.c[1].NonceLen >= 16

(***************************************************************************)
(* The envelope size of the instances of a Configuration.                  *)
(***************************************************************************)
\* The configurations of the tests, in both modes, with nonces of 16 and of
\* 32 bytes, with and without a context.
confs ==
    { [Group |-> g[1], KDF |-> g[2], MAC |-> g[2], Hash |-> g[2],
       MHF |-> "Scrypt", Mode |-> m, Context |-> ctx, NonceLen |-> n] :
        g \in {<<"RistrettoSha512", "SHA512">>, <<"P256Sha256", "SHA256">>,
               <<"P384Sha512", "SHA512">>, <<"P521Sha512", "SHA512">>},
        m \in {Internal, External}, ctx \in {Nil, Str("ctx")}, n \in {16, 32} }

InitEnvelope ==
    /\ conf \in confs
    /\ cli = NewClient(conf)
    /\ srv = NewServer(conf)
    /\ net = [rreq |-> None, rresp |-> None, rupl |-> None,
              ke1 |-> None, ke2 |-> None, ke3 |-> None]
    /\ db = [sks |-> Nil, pks |-> Nil, idc |-> Nil, ids |-> Nil, rec |-> None]
    /\ out = InitOut
    /\ calc = [fake |-> None]

\* The client of the configuration starts a login.
EnvelopeClientInit ==
    /\ net.ke1 = None
    /\ \E pw \in Passwords :
       \E x \in {ClientInit(cli, pw, The(LoginBlindChoices), The(ClientEskChoices),
                            Nonce(cli.p, 30))} :
          /\ cli' = x.c
          /\ net' = [net EXCEPT !.ke1 = Some(x.msg)]
    /\ UNCHANGED <<conf, srv, db, out, calc>>

\* GetFakeEnvelope(conf)
GetFakeEnvelopeCall ==
    /\ calc.fake = None
    /\ calc' = [calc EXCEPT !.fake = Some(GetFakeEnvelope(conf))]
    /\ UNCHANGED <<conf, cli, srv, net, db, out>>

NextEnvelope == EnvelopeClientInit \/ GetFakeEnvelopeCall

SpecEnvelope == InitEnvelope /\ [][NextEnvelope]_vars

\* C20: the EnvelopeSize of the Client and of the Server of a Configuration is
\* NonceLen + MAC size in Internal mode and NonceLen + MAC size + scalar
\* length in External mode, whatever else the instances hold, and
\* GetFakeEnvelope returns that many bytes, all of them zero.
C20_EnvelopeSize ==
    \A size \in {conf.NonceLen + HashSize(conf.MAC)
                   + (IF conf.Mode = External THEN ScalarLength(conf.Group) ELSE 0)} :
        /\ conf.Mode = Internal => size = conf.NonceLen + HashSize(conf.MAC)
        /\ cli.p.EnvelopeSize = size
        /\ srv.p.EnvelopeSize = size
        /\ calc.fake # None
              => /\ BLen(calc.fake[1]) = size
                 /\ \A i \in 1 .. Len(calc.fake[1]) : IsZero(calc.fake[1][i][1])

\* In External mode over P-384 with 16-byte nonces, a client that has begun a
\* login and the fake envelope of 16 + 64 + 48 zero bytes.
C20_Witness ==
    /\ conf.Mode = External
    /\ conf.Group = "P384Sha512"
    /\ conf.NonceLen = 16
    /\ cli.ke1 # None
    /\ cli.p.EnvelopeSize = 128
    /\ calc.fake = Some(Zeros(128))

\* C21: masking twice under the same key and nonce gives the cleartext back:
\* the masked response of a KE2 is the mask of server public key || envelope,
\* unmasking it returns that cleartext, its length is AkePointLength +
\* EnvelopeSize, and a client that typed the registered password derives the
\* record's masking key and recovers the server public key and the envelope.
C21_MaskInvolution ==
    (out.init.called /\ out.init.err = NoErr) =>
        \A rec \in {RecordOf(out.init.recKind)}, ke2 \in {out.init.ke2[1]} :
        \A clear \in {Concat(db.pks, rec.Envelope)} :
            /\ ke2.MaskedResponse # clear
            /\ ke2.MaskedResponse
                  = MaskResponse(srv.p, rec.MaskingKey, ke2.MaskingNonce, clear)
            /\ MaskResponse(srv.p, rec.MaskingKey, ke2.MaskingNonce,
                            MaskResponse(srv.p, rec.MaskingKey, ke2.MaskingNonce,
                                         clear)) = clear
            /\ BLen(ke2.MaskedResponse) = srv.p.AkePointLength + srv.p.EnvelopeSize
            /\ (SamePassword /\ HonestInit) =>
                  \A k \in {MaskingKeyOf(cli.p,
                                BuildPRK(cli.p, OprfFinalize(cli.p, cli.pwd,
                                                    cli.blind, ke2.Data).m))} :
                  \A got \in {MaskResponse(cli.p, k, ke2.MaskingNonce,
                                           ke2.MaskedResponse)} :
                      /\ k = rec.MaskingKey
                      /\ Take(got, cli.p.AkePointLength) = db.pks
                      /\ Drop(got, cli.p.AkePointLength) = rec.Envelope

\* In External mode the server has answered the KE1 of a client that typed
\* the registered password, with a masked response of 32 + 128 bytes.
C21_Witness ==
    /\ conf.Mode = External
    /\ SamePassword
    /\ HonestInit
    /\ out.init.err = NoErr
    /\ BLen(out.init.ke2[1].MaskedResponse) = 160
    /\ MaskResponse(srv.p, db.rec[1].MaskingKey, out.init.ke2[1].MaskingNonce,
                    out.init.ke2[1].MaskedResponse)
          = Concat(db.pks, db.rec[1].Envelope)

(***************************************************************************)
(* The OPRF key of a user: two evaluations by RegistrationResponse or Init, *)
(* on one Server or on two, under any seeds, credential identifiers, keys  *)
(* and records.                                                            *)
(***************************************************************************)
\* What determines the evaluated element: seed, credential identifier and the
\* blind r of the element the client sends.
OprfInputs ==
    [seed : {OprfSeed, Bytes(<<"seed", 2>>, 32)}, cred : {CredId(1), CredId(2)},
     r : {2, 3}]

\* Records of two unrelated users.
OprfRecords(c) ==
    {FakeRecord(c),
     [FakeRecord(c) EXCEPT !.PublicKey = KeyGen(c.Group, 4).pk,
                           !.MaskingKey = Bytes(<<"rand", 7>>, HashSize(c.Hash)),
                           !.ClientIdentity = ClientIdent]}

InitOprf ==
    /\ conf \in {[DefaultConfiguration EXCEPT !.Mode = m] : m \in {Internal, External}}
    /\ cli = NewClient(conf)
    /\ srv = NewServer(conf)
    /\ net = [rreq |-> None, rresp |-> None, rupl |-> None,
              ke1 |-> None, ke2 |-> None, ke3 |-> None]
    /\ db = [sks |-> Nil, pks |-> Nil, idc |-> Nil, ids |-> Nil, rec |-> None]
    /\ out = InitOut
    /\ calc = [calls |-> <<>>]

\* Server.RegistrationResponse on the Server srv or on a new one.
OprfRegistrationResponse ==
    /\ Len(calc.calls) < 2
    /\ \E in \in OprfInputs, k \in {3, 5}, fresh \in BOOLEAN :
       \E req \in {ClientRegistrationInit(cli, The(Passwords), in.r).msg} :
       \E x \in {ServerRegistrationResponse((IF fresh THEN NewServer(conf) ELSE srv).p,
                     req, KeyGen(conf.Group, k).pk, in.cred, in.seed)} :
          calc' = [calc EXCEPT !.calls =
                      Append(@, [kind |-> "registration", in |-> in, sk |-> k,
                                 rec |-> Nil, fresh |-> fresh, blinded |-> req.Data,
                                 err |-> x.err,
                                 data |-> IF x.err = NoErr THEN x.msg[1].Data
                                          ELSE Nil])]
    /\ UNCHANGED <<conf, cli, srv, net, db, out>>

\* Server.Init on the Server srv, which keeps the AKE state, or on a new one.
OprfInit ==
    /\ Len(calc.calls) < 2
    /\ \E in \in OprfInputs, k \in {3, 5}, fresh \in BOOLEAN, rec \in OprfRecords(conf) :
       \E ke1 \in {ClientInit(cli, The(Passwords), in.r,
                              The(ClientEskChoices), Nonce(cli.p, 30)).msg} :
       \E x \in {ServerInit(IF fresh THEN NewServer(conf) ELSE srv, ke1, Nil,
                            KeyGen(conf.Group, k).sk, KeyGen(conf.Group, k).pk,
                            in.seed, [rec EXCEPT !.CredentialIdentifier = in.cred],
                            [maskingNonce |-> Nonce(srv.p, 10),
                             esk |-> The(ServerEskChoices),
                             nonce |-> Nonce(srv.p, 20)])} :
          /\ srv' = IF fresh THEN srv ELSE x.s
          /\ calc' = [calc EXCEPT !.calls =
                         Append(@, [kind |-> "init", in |-> in, sk |-> k,
                                    rec |-> rec.MaskingKey, fresh |-> fresh,
                                    blinded |-> ke1.Data, err |-> x.err,
                                    data |-> IF x.err = NoErr THEN x.ke2[1].Data
                                             ELSE Nil])]
    /\ UNCHANGED <<conf, cli, net, db, out>>

NextOprf == OprfRegistrationResponse \/ OprfInit

SpecOprf == InitOprf /\ [][NextOprf]_vars

\* C22: two calls of RegistrationResponse or Init with the same seed,
\* credential identifier and blinded element return the same evaluated
\* element, on the same or on another Server, whatever was called before and
\* whatever the record and the server key pair: the element is the blinded
\* element times the key derived from seed and credential identifier.
C22_OprfKeyDeterministic ==
    /\ \A i \in 1 .. Len(calc.calls) :
          \A c \in {calc.calls[i]} :
              /\ c.err = NoErr
              /\ c.data = PadPoint(SerializePoint(conf.Group,
                              Mult(DecodeElement(conf.Group, c.blinded).v,
                                   DeriveKey(Expand(conf.KDF, c.in.seed,
                                                    SuffixString(c.in.cred, "OprfKey"),
                                                    ScalarLength(conf.Group)),
                                             Str("OPAQUE-DeriveKeyPair")))),
                              conf.Group)
    /\ Len(calc.calls) = 2 =>
          (calc.calls[1].in = calc.calls[2].in
              => calc.calls[1].data = calc.calls[2].data)

\* RegistrationResponse on a new Server and, after it, Init on a Server with
\* another key pair have returned the same evaluated element.
C22_Witness ==
    /\ Len(calc.calls) = 2
    /\ calc.calls[1].kind = "registration"
    /\ calc.calls[2].kind = "init"
    /\ calc.calls[1].fresh
    /\ ~calc.calls[2].fresh
    /\ calc.calls[1].sk # calc.calls[2].sk
    /\ calc.calls[1].in = calc.calls[2].in
    /\ calc.calls[1].data = calc.calls[2].data
    /\ calc.calls[2].data # Nil

\* C23: in External mode the client public key of the stored record is the
\* base times the secret key the client supplied to RegistrationFinalize, and
\* a login with the registered password succeeds and recovers from the
\* envelope exactly that secret key.
C23_ExternalKeyRecovered ==
    (conf.Mode = External /\ Registered) =>
        /\ DecodeScalar(conf.Group, out.reg.skc).ok
        /\ db.rec[1].PublicKey
              = SerializePoint(conf.Group,
                    Mult(Base, DecodeScalar(conf.Group, out.reg.skc).v))
        /\ HonestClientFinish =>
              /\ out.cfin.err = NoErr
              /\ \A rec \in {RecoverEnvelope(cli.p, cli.mode,
                                 BuildPRK(cli.p, OprfFinalize(cli.p, cli.pwd, cli.blind,
                                                     out.init.ke2[1].Data).m),
                                 db.pks, db.idc, db.ids, db.rec[1].Envelope)} :
                    /\ rec.err = NoErr
                    /\ SerializeScalar(conf.Group, rec.sk) = out.reg.skc
                    /\ rec.pkc = db.rec[1].PublicKey

\* An External-mode client that registered with the secret key 6 has logged
\* in with the registered password.
C23_Witness ==
    /\ conf.Mode = External
    /\ Registered
    /\ out.reg.skc = SerializeScalar(conf.Group, 6)
    /\ HonestClientFinish
    /\ out.cfin.err = NoErr
    /\ db.rec[1].PublicKey = SerializePoint(conf.Group, Mult(Base, 6))

(***************************************************************************)
(* Server.Init on inputs of which any may be invalid or nil.               *)
(***************************************************************************)
\* Server.Init with ke1 and record as pointers that may be nil (None): the
\* two keys are decoded before either pointer is followed, and following a
\* nil pointer panics.
ServerInitNilable(s, ke1, serverIdentity, serverSecretKey, serverPublicKey, oprfSeed, record, rnd) ==
    IF ke1 # None /\ record # None
    THEN ServerInit(s, ke1[1], serverIdentity, serverSecretKey, serverPublicKey,
                    oprfSeed, record[1], rnd)
    ELSE IF ~DecodeElement(s.p.Group, serverPublicKey).ok
    THEN [err |-> <<"invalid server public key", "could not decode element">>,
          ke2 |-> None, s |-> s]
    ELSE IF ~DecodeScalar(s.p.Group, serverSecretKey).ok
    THEN [err |-> <<"invalid server secret key", "could not decode scalar">>,
          ke2 |-> None, s |-> s]
    ELSE [err |-> <<"panic", "nil pointer dereference">>, ke2 |-> None, s |-> s]

\* What Server.Init is called with: each input valid, invalid or nil.
ServerInitInputs ==
    [pks : {"ok", "bad", "nil"}, sks : {"ok", "bad", "nil"},
     ke1 : {"nil", "set"}, data : {"ok", "bad"}, epku : {"ok", "bad"},
     rec : {"nil", "set"}, pku : {"ok", "bad"}]

InitServerInit ==
    /\ conf \in {[DefaultConfiguration EXCEPT !.Mode = m] : m \in {Internal, External}}
    /\ cli = NewClient(conf)
    /\ srv = NewServer(conf)
    /\ net = [rreq |-> None, rresp |-> None, rupl |-> None,
              ke1 |-> None, ke2 |-> None, ke3 |-> None]
    /\ db = [sks |-> Nil, pks |-> Nil, idc |-> Nil, ids |-> Nil, rec |-> None]
    /\ out = InitOut
    /\ \E in \in ServerInitInputs :
          /\ in.ke1 = "nil" => (in.data = "ok" /\ in.epku = "ok")
          /\ in.rec = "nil" => in.pku = "ok"
          /\ calc = [in |-> in, done |-> FALSE, err |-> NoErr, ke2 |-> None]

\* server.Init(ke1, nil, sk, pk, seed, rec)
ServerInitProbe ==
    /\ ~calc.done
    /\ \E ke1 \in {ClientInit(cli, The(Passwords), The(LoginBlindChoices),
                              The(ClientEskChoices), Nonce(cli.p, 30)).msg} :
       \E r \in {ServerInitNilable(srv,
                    IF calc.in.ke1 = "nil" THEN None
                    ELSE Some([ke1 EXCEPT
                                 !.Data = IF calc.in.data = "ok" THEN @
                                          ELSE BadElement(conf.Group),
                                 !.EpkU = IF calc.in.epku = "ok" THEN @
                                          ELSE BadElement(conf.Group)]),
                    Nil,
                    CASE calc.in.sks = "ok" -> KeyGen(conf.Group, 3).sk
                      [] calc.in.sks = "bad" -> Bytes(<<"badsc", conf.Group>>,
                                                      ScalarLength(conf.Group))
                      [] OTHER -> Nil,
                    CASE calc.in.pks = "ok" -> KeyGen(conf.Group, 3).pk
                      [] calc.in.pks = "bad" -> BadElement(conf.Group)
                      [] OTHER -> Nil,
                    OprfSeed,
                    IF calc.in.rec = "nil" THEN None
                    ELSE Some([FakeRecord(conf) EXCEPT
                                 !.PublicKey = IF calc.in.pku = "ok" THEN @
                                               ELSE BadElement(conf.Group)]),
                    [maskingNonce |-> Nonce(srv.p, 10),
                     esk |-> The(ServerEskChoices),
                     nonce |-> Nonce(srv.p, 20)])} :
          /\ srv' = r.s
          /\ calc' = [calc EXCEPT !.done = TRUE, !.err = r.err, !.ke2 = r.ke2]
    /\ UNCHANGED <<conf, cli, net, db, out>>

SpecServerInit == InitServerInit /\ [][ServerInitProbe]_vars

\* C24: Server.Init reports the first failure in the order server public
\* key, server secret key, OPRF evaluation of the blinded element, client
\* ephemeral public key, client public key of the record, and nothing of a
\* later one; the first two are reported also when KE1 and record are nil.
C24_ServerInitOrder ==
    calc.done =>
        \A in \in {calc.in} :
            /\ in.pks # "ok"
                  => (calc.err[1] = "invalid server public key" /\ Len(calc.err) = 2)
            /\ (in.pks = "ok" /\ in.sks # "ok")
                  => (calc.err[1] = "invalid server secret key" /\ Len(calc.err) = 2)
            /\ (in.pks = "ok" /\ in.sks = "ok" /\ in.ke1 = "set" /\ in.rec = "set")
                  => /\ in.data = "bad"
                        => /\ calc.err[1] = " credentialResponse"
                           /\ \A i \in 1 .. Len(calc.err) :
                                 calc.err[i] \notin {"decoding peer ephemeral public key",
                                                     "decoding peer public key"}
                     /\ (in.data = "ok" /\ in.epku = "bad")
                        => calc.err = <<" AKE response",
                                        "decoding peer ephemeral public key",
                                        "could not decode element">>
                     /\ (in.data = "ok" /\ in.epku = "ok" /\ in.pku = "bad")
                        => calc.err = <<" AKE response", "decoding peer public key",
                                        "could not decode element">>
                     /\ (in.data = "ok" /\ in.epku = "ok" /\ in.pku = "ok")
                        => (calc.err = NoErr /\ calc.ke2 # None)
            /\ calc.err # NoErr => calc.ke2 = None

\* With valid keys and blinded element, an invalid client ephemeral key and
\* an invalid client public key in the record, the ephemeral key is reported.
C24_Witness ==
    /\ calc.done
    /\ calc.in.pks = "ok"
    /\ calc.in.sks = "ok"
    /\ calc.in.ke1 = "set"
    /\ calc.in.rec = "set"
    /\ calc.in.data = "ok"
    /\ calc.in.epku = "bad"
    /\ calc.in.pku = "bad"
    /\ calc.err[2] = "decoding peer ephemeral public key"

(***************************************************************************)
(* Client.Finish on a KE2 with any combination of six faults.              *)
(***************************************************************************)
\* Which parts of the server's KE2 are altered before Client.Finish gets it.
KE2Faults ==
    [eval : BOOLEAN, len : BOOLEAN, tag : BOOLEAN, epk : BOOLEAN, pk : BOOLEAN,
     mac : BOOLEAN]

\* The KE2 of net.ke2 with the faults f: an evaluated element that is no
\* element, a masked response one byte too long, a random envelope tag, a
\* server ephemeral key that is no element, a server public key that is no
\* element under an envelope tag recomputed for it, a random server MAC.
KE2Tampered(f) ==
    The({ The({ [Data |-> IF f.eval THEN BadElement(cli.p.Group) ELSE ke2.Data,
                 MaskingNonce |-> ke2.MaskingNonce,
                 MaskedResponse |->
                     IF f.len
                     THEN Bytes(<<"rand", 3>>,
                                cli.p.AkePointLength + cli.p.EnvelopeSize + 1)
                     ELSE MaskResponse(srv.p, rec.MaskingKey, ke2.MaskingNonce,
                              Concat3(pks, Take(rec.Envelope, n),
                                  IF f.tag
                                  THEN Bytes(<<"rand", 8>>, HashSize(cli.p.MAC))
                                  ELSE IF f.pk
                                  THEN AuthTagOf(cli.p, rpw,
                                           Take(rec.Envelope, cli.p.NonceLen),
                                           Slice(rec.Envelope, cli.p.NonceLen, n),
                                           CreateCleartextCredentials(
                                               rec.PublicKey, pks, db.idc, db.ids))
                                  ELSE Drop(rec.Envelope, n))),
                 NonceS |-> ke2.NonceS,
                 EpkS |-> IF f.epk THEN BadElement(cli.p.Group) ELSE ke2.EpkS,
                 Mac |-> IF f.mac THEN Bytes(<<"rand", 9>>, HashSize(cli.p.MAC))
                         ELSE ke2.Mac]
                : n \in {BLen(rec.Envelope) - HashSize(cli.p.MAC)},
                  pks \in {IF f.pk THEN BadElement(cli.p.Group) ELSE db.pks},
                  rpw \in {BuildPRK(cli.p, OprfFinalize(cli.p, cli.pwd, cli.blind,
                                                       ke2.Data).m)} })
          : ke2 \in {net.ke2[1]}, rec \in {db.rec[1]} })

InitClientFinish ==
    /\ conf \in {[DefaultConfiguration EXCEPT !.Mode = m] : m \in {Internal, External}}
    /\ cli = NewClient(conf)
    /\ srv = NewServer(conf)
    /\ net = [rreq |-> None, rresp |-> None, rupl |-> None,
              ke1 |-> None, ke2 |-> None, ke3 |-> None]
    /\ \E explicit \in BOOLEAN, k \in ServerKeyChoices :
          db = [sks |-> KeyGen(conf.Group, k).sk, pks |-> KeyGen(conf.Group, k).pk,
                idc |-> IF explicit THEN ClientIdent ELSE Nil,
                ids |-> IF explicit THEN ServerIdent ELSE Nil, rec |-> None]
    /\ out = InitOut
    /\ \E pw \in Passwords :
          calc = [pwd |-> pw, done |-> FALSE,
                  f |-> [eval |-> FALSE, len |-> FALSE, tag |-> FALSE,
                         epk |-> FALSE, pk |-> FALSE, mac |-> FALSE],
                  err |-> NoErr, ke3 |-> None, exportKey |-> Nil]

\* The record is built, the client sends KE1 and the server answers it.
PrepareKE2 ==
    /\ net.ke2 = None
    /\ \E reg \in {testRegistration(conf, calc.pwd, db, The(ClientKeyChoices))} :
       \E x \in {ClientInit(cli, calc.pwd, The(LoginBlindChoices),
                            The(ClientEskChoices), Nonce(cli.p, 30))} :
       \E i \in {ServerInit(srv, x.msg, db.ids, db.sks, db.pks, OprfSeed,
                            reg.record[1],
                            [maskingNonce |-> Nonce(srv.p, 10),
                             esk |-> The(ServerEskChoices),
                             nonce |-> Nonce(srv.p, 20)])} :
          /\ db' = [db EXCEPT !.rec = reg.record]
          /\ cli' = x.c
          /\ srv' = i.s
          /\ net' = [net EXCEPT !.ke1 = Some(x.msg), !.ke2 = i.ke2]
    /\ UNCHANGED <<conf, out, calc>>

\* client.Finish(idc, ids, ke2) on the altered KE2.
FinishTampered ==
    /\ net.ke2 # None
    /\ ~calc.done
    /\ \E f \in KE2Faults :
       \E r \in {ClientFinish(cli, db.idc, db.ids, KE2Tampered(f))} :
          /\ cli' = r.c
          /\ net' = [net EXCEPT !.ke3 = r.ke3]
          /\ calc' = [calc EXCEPT !.done = TRUE, !.f = f, !.err = r.err,
                                  !.ke3 = r.ke3, !.exportKey = r.exportKey]
    /\ UNCHANGED <<conf, srv, db, out>>

NextClientFinish == PrepareKE2 \/ FinishTampered

SpecClientFinish == InitClientFinish /\ [][NextClientFinish]_vars

\* C25: Client.Finish reports the first fault of KE2 in the order evaluated
\* element, masked-response length, envelope authentication tag, server
\* ephemeral public key, server public key, server MAC, and returns a KE3 and
\* an export key only when there is none.
C25_ClientFinishOrder ==
    calc.done =>
        \A f \in {calc.f} :
            /\ calc.err =
                 (IF f.eval
                  THEN <<"finalizing OPRF ", "could not decode element">>
                  ELSE IF f.len
                  THEN <<"invalid masked response length">>
                  ELSE IF f.tag
                  THEN <<"recover envelope", "invalid envelope authentication tag">>
                  ELSE IF f.epk
                  THEN <<" AKE finalization", "decoding peer ephemeral public key",
                         "could not decode element">>
                  ELSE IF f.pk
                  THEN <<" AKE finalization", "decoding peer public key",
                         "could not decode element">>
                  ELSE IF f.mac
                  THEN <<" AKE finalization", "invalid server mac">>
                  ELSE NoErr)
            /\ (calc.ke3 # None /\ calc.exportKey # Nil)
                  <=> ~(f.eval \/ f.len \/ f.tag \/ f.epk \/ f.pk \/ f.mac)
            /\ calc.ke3 = None <=> calc.exportKey = Nil

\* A KE2 with an invalid server ephemeral key, an invalid server public key
\* under a valid envelope tag and a wrong MAC: the ephemeral key is reported.
C25_Witness ==
    /\ calc.done
    /\ ~calc.f.eval
    /\ ~calc.f.len
    /\ ~calc.f.tag
    /\ calc.f.epk
    /\ calc.f.pk
    /\ calc.f.mac
    /\ calc.err[2] = "decoding peer ephemeral public key"
    /\ calc.ke3 = None

(***************************************************************************)
(* Client.RegistrationFinalize on an altered RegistrationResponse.         *)
(***************************************************************************)
\* The server public key of the response as sent, nil or no element; the
\* evaluated element as sent or no element; the client's own key (External
\* mode) valid or not.
RegistrationFaults ==
    [pks : {"ok", "nil", "bad"}, eval : {"ok", "bad"}, sk : {"ok", "bad"}]

InitRegFinalize ==
    /\ conf \in {[DefaultConfiguration EXCEPT !.Mode = m] : m \in {Internal, External}}
    /\ cli = NewClient(conf)
    /\ srv = NewServer(conf)
    /\ net = [rreq |-> None, rresp |-> None, rupl |-> None,
              ke1 |-> None, ke2 |-> None, ke3 |-> None]
    /\ \E explicit \in BOOLEAN, k \in ServerKeyChoices :
          db = [sks |-> KeyGen(conf.Group, k).sk, pks |-> KeyGen(conf.Group, k).pk,
                idc |-> IF explicit THEN ClientIdent ELSE Nil,
                ids |-> IF explicit THEN ServerIdent ELSE Nil, rec |-> None]
    /\ out = InitOut
    /\ \E pw \in Passwords :
          calc = [pwd |-> pw, done |-> FALSE,
                  f |-> [pks |-> "ok", eval |-> "ok", sk |-> "ok"],
                  err |-> NoErr, upload |-> None, exportKey |-> Nil]

\* The client asks for a registration and the server answers.
PrepareResponse ==
    /\ net.rresp = None
    /\ \E x \in {ClientRegistrationInit(cli, calc.pwd, The(RegBlindChoices))} :
       \E r \in {ServerRegistrationResponse(srv.p, x.msg, db.pks, CredId(1),
                                            OprfSeed)} :
          /\ cli' = x.c
          /\ net' = [net EXCEPT !.rreq = Some(x.msg), !.rresp = r.msg]
    /\ UNCHANGED <<conf, srv, db, out, calc>>

\* client.RegistrationFinalize(skc, creds, r2) on the altered response.
FinalizeTampered ==
    /\ net.rresp # None
    /\ ~calc.done
    /\ \E f \in RegistrationFaults :
       \E r \in {ClientRegistrationFinalize(cli,
                    IF f.sk = "bad"
                    THEN Bytes(<<"badsc", conf.Group>>, ScalarLength(conf.Group))
                    ELSE IF conf.Mode = External
                    THEN KeyGen(conf.Group, The(ClientKeyChoices)).sk
                    ELSE Nil,
                    [Client |-> db.idc, Server |-> db.ids, TestEnvNonce |-> Nil],
                    [Data |-> IF f.eval = "bad" THEN BadElement(conf.Group)
                              ELSE net.rresp[1].Data,
                     Pks |-> CASE f.pks = "nil" -> Nil
                               [] f.pks = "bad" -> BadElement(conf.Group)
                               [] OTHER -> net.rresp[1].Pks],
                    Nonce(cli.p, 40))} :
          /\ net' = [net EXCEPT !.rupl = r.upload]
          /\ calc' = [calc EXCEPT !.done = TRUE, !.f = f, !.err = r.err,
                                  !.upload = r.upload, !.exportKey = r.exportKey]
    /\ UNCHANGED <<conf, cli, srv, db, out>>

NextRegFinalize == PrepareResponse \/ FinalizeTampered

SpecRegFinalize == InitRegFinalize /\ [][NextRegFinalize]_vars

\* C26: Client.RegistrationFinalize returns an error, no RegistrationUpload
\* and no export key when the server public key of the response is nil or
\* no group element ("invalid server public key") or when the evaluated
\* element is no group element ("building envelope: finalizing OPRF").
C26_RegistrationFinalizeErrors ==
    calc.done =>
        /\ (calc.f.pks # "ok" \/ calc.f.eval = "bad")
              => /\ calc.err # NoErr
                 /\ calc.upload = None
                 /\ calc.exportKey = Nil
                 /\ net.rupl = None
        /\ (calc.f.pks # "ok" /\ calc.f.eval = "ok")
              => calc.err = <<"invalid server public key ", "could not decode element">>
        /\ (calc.f.pks = "ok" /\ calc.f.eval = "bad")
              => calc.err = <<"building envelope", "finalizing OPRF ",
                              "could not decode element">>
        /\ (calc.f.pks # "ok" /\ calc.f.eval = "bad")
              => calc.err[1] \in {"invalid server public key ", "building envelope"}
        /\ (calc.f.pks = "ok" /\ calc.f.eval = "ok"
               /\ (calc.f.sk = "ok" \/ conf.Mode = Internal))
              => (calc.err = NoErr /\ calc.upload # None /\ calc.exportKey # Nil)

\* A response whose server public key is nil has been refused.
C26_Witness ==
    /\ calc.done
    /\ calc.f.pks = "nil"
    /\ calc.f.eval = "ok"
    /\ calc.err[1] = "invalid server public key "
    /\ calc.upload = None
    /\ calc.exportKey = Nil

(***************************************************************************)
(* The hooks that force the ephemeral scalar and the nonce in tests.       *)
(* A nil scalar is 0 (no scalar of the model is 0), a nil nonce is Nil;    *)
(* rnd holds what the random source would deliver.                         *)
(***************************************************************************)
\* internal/ake setValues: keeps no memory of earlier calls.
setValues(g, scalar, nonce, nonceLen, rnd) ==
    [s |-> IF scalar # 0 THEN scalar ELSE rnd.esk,
     n |-> IF BLen(nonce) = 0 THEN rnd.nonce ELSE nonce]

\* ake.Ake.Initialize: a is the Ake with its fields Esk and Epk (0 when nil);
\* n is the nonce returned to the caller.
Initialize(a, scalar, nonce, nonceLen, rnd) ==
    The({ [a |-> [Esk |-> esk, Epk |-> Mult(Base, esk)],
           n |-> IF nonce # Nil THEN nonce ELSE rnd.nonce]
          : esk \in {IF a.Esk = 0
                     THEN (IF scalar # 0 THEN scalar ELSE rnd.esk)
                     ELSE a.Esk} })

MaxHookCalls == 2

\* A test exercises one of the two hooks, several times in a row.
InitSetValues ==
    /\ conf = DefaultConfiguration
    /\ cli = NewClient(conf)
    /\ srv = NewServer(conf)
    /\ net = [rreq |-> None, rresp |-> None, rupl |-> None,
              ke1 |-> None, ke2 |-> None, ke3 |-> None]
    /\ db = [sks |-> Nil, pks |-> Nil, idc |-> Nil, ids |-> Nil, rec |-> None]
    /\ out = InitOut
    /\ \E hook \in {"setValues", "Initialize"} :
          calc = [hook |-> hook, a |-> [Esk |-> 0, Epk |-> 0], calls |-> <<>>]

\* The test calls setValues and uses the scalar and the nonce it returns.
setValuesCall ==
    /\ calc.hook = "setValues"
    /\ Len(calc.calls) < MaxHookCalls
    /\ \E scalar \in {0, 2, 3}, i \in 0..2, rnd \in {5, 6} :
       \E r \in {setValues(conf.Group, scalar,
                           IF i = 0 THEN Nil ELSE Nonce(srv.p, i),
                           conf.NonceLen,
                           [esk |-> rnd, nonce |-> Nonce(srv.p, 10 + rnd)])} :
          calc' = [calc EXCEPT !.calls = Append(@, [scalar |-> scalar, nonce |-> i,
                                                    Esk |-> r.s,
                                                    Epk |-> Mult(Base, r.s),
                                                    n |-> r.n])]
    /\ UNCHANGED <<conf, cli, srv, net, db, out>>

\* The test calls Initialize on the Ake and uses the nonce it returns.
InitializeCall ==
    /\ calc.hook = "Initialize"
    /\ Len(calc.calls) < MaxHookCalls
    /\ \E scalar \in {0, 2, 3}, i \in 0..2, rnd \in {5, 6} :
       \E r \in {Initialize(calc.a, scalar,
                            IF i = 0 THEN Nil ELSE Nonce(srv.p, i),
                            conf.NonceLen,
                            [esk |-> rnd, nonce |-> Nonce(srv.p, 10 + rnd)])} :
          calc' = [calc EXCEPT !.a = r.a,
                               !.calls = Append(@, [scalar |-> scalar, nonce |-> i,
                                                    Esk |-> r.a.Esk,
                                                    Epk |-> r.a.Epk,
                                                    n |-> r.n])]
    /\ UNCHANGED <<conf, cli, srv, net, db, out>>

NextSetValues == setValuesCall \/ InitializeCall

SpecSetValues == InitSetValues /\ [][NextSetValues]_vars

\* C27: the hooks are set-once: after a first call has forced or sampled the
\* ephemeral scalar and the nonce, a later call has no effect: the ephemeral
\* secret, the ephemeral public key and the nonce of the session stay those
\* of the first call.
C27_HooksSetOnce ==
    \A j \in 1..Len(calc.calls) :
        /\ calc.calls[j].Esk = calc.calls[1].Esk
        /\ calc.calls[j].Epk = calc.calls[1].Epk
        /\ calc.calls[j].n = calc.calls[1].n

(***************************************************************************)
(* Several Client/Server pairs built from one Configuration, their logins  *)
(* interleaved.  calc.heap holds the streaming state of every Hash object; *)
(* an instance reads and writes the object toInternal gave it.             *)
(***************************************************************************)
Pairs == 1..2

InitPairs ==
    /\ conf \in {[DefaultConfiguration EXCEPT !.Mode = m] : m \in {Internal, External}}
    /\ cli = NewClient(conf)
    /\ srv = NewServer(conf)
    /\ net = [rreq |-> None, rresp |-> None, rupl |-> None,
              ke1 |-> None, ke2 |-> None, ke3 |-> None]
    /\ out = InitOut
    /\ \E pw \in Passwords :
       \E keys \in {[sks |-> KeyGen(conf.Group, The(ServerKeyChoices)).sk,
                     pks |-> KeyGen(conf.Group, The(ServerKeyChoices)).pk,
                     idc |-> ClientIdent, ids |-> ServerIdent]} :
       \E reg \in {testRegistration(conf, pw, keys, The(ClientKeyChoices))} :
          /\ db = [sks |-> keys.sks, pks |-> keys.pks, idc |-> keys.idc,
                   ids |-> keys.ids, rec |-> reg.record]
          /\ \E pws \in [Pairs -> Passwords] :
             \E rnds \in [Pairs -> {[eskC |-> 2, eskS |-> 3, nonceU |-> 1, nonceS |-> 1],
                                    [eskC |-> 4, eskS |-> 5, nonceU |-> 2, nonceS |-> 1]}] :
                calc = [regPwd |-> pw,
                        heap |-> [h \in {NewHash(side, i) : side \in {client, server},
                                                            i \in Pairs} |-> Nil],
                        pairs |-> [i \in Pairs |->
                                     [pc |-> "start", pwd |-> pws[i], rnd |-> rnds[i],
                                      c |-> NewClient(conf), s |-> NewServer(conf),
                                      m |-> None, err |-> NoErr, exportKey |-> Nil]]]

\* client.Init of pair i; the KE1 goes over the wire.
PairClientInit ==
    \E i \in Pairs :
       /\ calc.pairs[i].pc = "start"
       /\ \E x \in {ClientInit(calc.pairs[i].c, calc.pairs[i].pwd,
                               The(LoginBlindChoices), calc.pairs[i].rnd.eskC,
                               Nonce(calc.pairs[i].c.p, 30 + calc.pairs[i].rnd.nonceU))} :
          \E m4 \in {DeserializeKE1(calc.pairs[i].s.p, KE1Serialize(x.msg))} :
             calc' = [calc EXCEPT !.pairs[i].c = x.c,
                                  !.pairs[i].m = m4.msg,
                                  !.pairs[i].err = m4.err,
                                  !.pairs[i].pc = IF m4.err = NoErr THEN "ke1"
                                                  ELSE "failed"]
       /\ UNCHANGED <<conf, cli, srv, net, db, out>>

\* server.Init of pair i, writing to the Hash object of its Server.
PairServerInit ==
    \E i \in Pairs :
       /\ calc.pairs[i].pc = "ke1"
       /\ \E r \in {ServerInit([calc.pairs[i].s EXCEPT
                                   !.hash = calc.heap[NewHash(server, i)]],
                               calc.pairs[i].m[1], db.ids, db.sks, db.pks,
                               OprfSeed, db.rec[1],
                               [maskingNonce |-> Nonce(calc.pairs[i].s.p, 10),
                                esk |-> calc.pairs[i].rnd.eskS,
                                nonce |-> Nonce(calc.pairs[i].s.p,
                                                20 + calc.pairs[i].rnd.nonceS)])} :
             calc' = [calc EXCEPT !.heap[NewHash(server, i)] = r.s.hash,
                                  !.pairs[i].s = r.s,
                                  !.pairs[i].m = r.ke2,
                                  !.pairs[i].err = r.err,
                                  !.pairs[i].pc = IF r.err = NoErr THEN "ke2"
                                                  ELSE "failed"]
       /\ UNCHANGED <<conf, cli, srv, net, db, out>>

\* client.Finish of pair i, writing to the Hash object of its Client.
PairClientFinish ==
    \E i \in Pairs :
       /\ calc.pairs[i].pc = "ke2"
       /\ \E m5 \in {DeserializeKE2(calc.pairs[i].c.p,
                                    KE2Serialize(calc.pairs[i].m[1]))} :
             IF m5.err # NoErr
             THEN calc' = [calc EXCEPT !.pairs[i].err = m5.err,
                                       !.pairs[i].m = None,
                                       !.pairs[i].pc = "failed"]
             ELSE \E f \in {ClientFinish([calc.pairs[i].c EXCEPT
                                             !.hash = calc.heap[NewHash(client, i)]],
                                         db.idc, db.ids, m5.msg[1])} :
                     calc' = [calc EXCEPT !.heap[NewHash(client, i)] = f.c.hash,
                                          !.pairs[i].c = f.c,
                                          !.pairs[i].m = f.ke3,
                                          !.pairs[i].err = f.err,
                                          !.pairs[i].exportKey = f.exportKey,
                                          !.pairs[i].pc = IF f.err = NoErr THEN "ke3"
                                                          ELSE "failed"]
       /\ UNCHANGED <<conf, cli, srv, net, db, out>>

\* server.Finish of pair i.
PairServerFinish ==
    \E i \in Pairs :
       /\ calc.pairs[i].pc = "ke3"
       /\ \E m6 \in {DeserializeKE3(calc.pairs[i].s.p,
                                    KE3Serialize(calc.pairs[i].m[1]))} :
          \E e \in {IF m6.err # NoErr THEN m6.err
                    ELSE ServerFinish(calc.pairs[i].s, m6.msg[1])} :
             calc' = [calc EXCEPT !.pairs[i].err = e,
                                  !.pairs[i].m = None,
                                  !.pairs[i].pc = IF e = NoErr THEN "done"
                                                  ELSE "failed"]
       /\ UNCHANGED <<conf, cli, srv, net, db, out>>

NextPairs ==
    PairClientInit \/ PairServerInit \/ PairClientFinish \/ PairServerFinish

SpecPairs == InitPairs /\ [][NextPairs]_vars

\* What pair i has to show at the end of its login.
PairResult(i) ==
    IF calc.pairs[i].pc = "done"
    THEN [err |-> NoErr, exportKey |-> calc.pairs[i].exportKey,
          clientKey |-> ClientSessionKey(calc.pairs[i].c),
          serverKey |-> ServerSessionKey(calc.pairs[i].s)]
    ELSE [err |-> calc.pairs[i].err, exportKey |-> Nil, clientKey |-> Nil,
          serverKey |-> Nil]

\* C28: sessions on distinct instances do not interfere: however the login
\* steps of the pairs are interleaved, every pair ends with the result it
\* produces when run alone, and with matching session keys when its
\* password is the registered one.
C28_PairsIndependent ==
    \A i \in Pairs :
        (calc.pairs[i].pc \in {"done", "failed"})
           => /\ PairResult(i) = testAuthentication(conf, calc.pairs[i].pwd,
                                                    db.rec[1], db,
                                                    calc.pairs[i].rnd)
              /\ (calc.pairs[i].pwd = calc.regPwd)
                    => /\ calc.pairs[i].pc = "done"
                       /\ PairResult(i).clientKey # Nil
                       /\ PairResult(i).clientKey = PairResult(i).serverKey

\* Both pairs have finished a login with the registered password: their
\* session keys match pairwise and differ between the pairs.
C28_Witness ==
    /\ \A i \in Pairs : calc.pairs[i].pc = "done" /\ calc.pairs[i].pwd = calc.regPwd
    /\ calc.pairs[1].rnd # calc.pairs[2].rnd
    /\ ClientSessionKey(calc.pairs[1].c) = ServerSessionKey(calc.pairs[1].s)
    /\ ClientSessionKey(calc.pairs[2].c) = ServerSessionKey(calc.pairs[2].s)
    /\ ClientSessionKey(calc.pairs[1].c) # ClientSessionKey(calc.pairs[2].c)

(***************************************************************************)
(* The transcript hash over successive sessions.  cli and srv are one      *)
(* Client and one Server; a session runs either on them or on instances    *)
(* newly made by conf.Client() and conf.Server().                          *)
(***************************************************************************)
InitTranscript ==
    /\ conf \in {[DefaultConfiguration EXCEPT !.Mode = m] : m \in {Internal, External}}
    /\ cli = NewClient(conf)
    /\ srv = NewServer(conf)
    /\ net = [rreq |-> None, rresp |-> None, rupl |-> None,
              ke1 |-> None, ke2 |-> None, ke3 |-> None]
    /\ out = InitOut
    /\ \E pw \in Passwords :
       \E keys \in {[sks |-> KeyGen(conf.Group, The(ServerKeyChoices)).sk,
                     pks |-> KeyGen(conf.Group, The(ServerKeyChoices)).pk,
                     idc |-> ClientIdent, ids |-> ServerIdent]} :
       \E reg \in {testRegistration(conf, pw, keys, The(ClientKeyChoices))} :
          /\ db = [sks |-> keys.sks, pks |-> keys.pks, idc |-> keys.idc,
                   ids |-> keys.ids, rec |-> reg.record]
          /\ calc = [pwd |-> pw, sessions |-> <<>>]

\* One login: client.Init, server.Init, client.Finish, server.Finish; each side
\* on a new instance or on the one that ran the login before.
RunSession ==
    /\ Len(calc.sessions) < MaxLogins
    /\ \E fresh \in [c : BOOLEAN, s : BOOLEAN], rnd \in {r \in LoginSamples : r.eskC = 2 /\ r.eskS = 3} :
       \E c0 \in {IF fresh.c THEN NewClient(conf) ELSE cli},
          s0 \in {IF fresh.s THEN NewServer(conf) ELSE srv} :
       \E x \in {ClientInit(c0, calc.pwd, The(LoginBlindChoices), rnd.eskC,
                            Nonce(c0.p, 30 + rnd.nonceU))} :
       \E i \in {ServerInit(s0, x.msg, db.ids, db.sks, db.pks, OprfSeed, db.rec[1],
                            [maskingNonce |-> Nonce(s0.p, 10), esk |-> rnd.eskS,
                             nonce |-> Nonce(s0.p, 20 + rnd.nonceS)])} :
       \E f \in {IF i.err # NoErr
                 THEN [err |-> i.err, ke3 |-> None, exportKey |-> Nil, c |-> x.c]
                 ELSE ClientFinish(x.c, db.idc, db.ids, i.ke2[1])} :
          /\ cli' = IF fresh.c THEN cli ELSE f.c
          /\ srv' = IF fresh.s THEN srv ELSE i.s
          /\ calc' = [calc EXCEPT !.sessions =
                         Append(@, [fresh |-> fresh, rnd |-> rnd, ke1 |-> x.msg,
                                    initErr |-> i.err, ke2 |-> i.ke2,
                                    expectedMac |-> ServerExpectedMAC(i.s),
                                    serverKey |-> ServerSessionKey(i.s),
                                    finErr |-> f.err, ke3 |-> f.ke3,
                                    clientKey |-> ClientSessionKey(f.c),
                                    serverFinish |->
                                        IF f.err # NoErr THEN <<"not called">>
                                        ELSE ServerFinish(i.s, f.ke3[1])])]
    /\ UNCHANGED <<conf, net, db, out>>

SpecTranscript == InitTranscript /\ [][RunSession]_vars

\* Session se carries the MACs and the session secret computed from the hash
\* of its own transcript alone.
TranscriptMacsOf(se) ==
    /\ se.initErr = NoErr
    /\ \A t \in {Concatenate(<<Str("RFCXXXX"), EncodeVector(srv.p.Context),
                               EncodeVector(db.idc), KE1Serialize(se.ke1),
                               EncodeVector(db.ids),
                               CredentialResponseSerialize(se.ke2[1]),
                               se.ke2[1].NonceS, se.ke2[1].EpkS>>)},
          k \in {ikm(server, conf.Group, se.rnd.eskS, The(ServerKeyChoices),
                     se.ke1.EpkU, db.rec[1].PublicKey)} :
       \A keys \in {deriveKeys(srv.p.KDF, k.ikm, Hash(srv.p.Hash, t))} :
       \A serverMac \in {Mac(srv.p.MAC, keys.serverMacKey, Hash(srv.p.Hash, t))} :
       \A clientMac \in {Mac(srv.p.MAC, keys.clientMacKey,
                             Hash(srv.p.Hash, Concat(t, serverMac)))} :
          /\ se.ke2[1].Mac = serverMac
          /\ se.expectedMac = clientMac
          /\ se.serverKey = keys.sessionSecret
          /\ se.finErr = NoErr
          /\ se.ke3[1].Mac = clientMac
          /\ se.clientKey = keys.sessionSecret

\* C29: in every session the server MAC is MAC(server-mac-key, H1) and the
\* client MAC is MAC(client-mac-key, H2), where H1 is the hash of exactly
\* the version tag, vec(context), vec(client identity), KE1, vec(server
\* identity), credential response, server nonce and server ephemeral public
\* key of this session, H2 the hash of that transcript followed by the
\* server MAC, and the preamble of the key derivation is H1; the client
\* computes the same two MACs and the same session secret.
C29_TranscriptMacs ==
    \A n \in 1..Len(calc.sessions) : TranscriptMacsOf(calc.sessions[n])

(***************************************************************************)
(* Identities.  Each side names an identity by nil, by the public key      *)
(* itself or by an application identity; the client at registration and at *)
(* login, the server in the record and in the call of Init.                *)
(***************************************************************************)
IdentityTokens == {"nil", "pk", "id"}

IdentityOf(tok, pk, ident) ==
    CASE tok = "nil" -> Nil
      [] tok = "pk" -> pk
      [] OTHER -> ident

\* The identity a side ends up with: nil stands for the public key.
Eff(toks) ==
    [idc |-> IF toks.idc = "nil" THEN "pk" ELSE toks.idc,
     ids |-> IF toks.ids = "nil" THEN "pk" ELSE toks.ids]

\* Before the registration the client's public key is known from a
\* registration without identities (it does not depend on them).
InitIdentities ==
    /\ conf \in {[DefaultConfiguration EXCEPT !.Mode = m] : m \in {Internal, External}}
    /\ cli = NewClient(conf)
    /\ srv = NewServer(conf)
    /\ net = [rreq |-> None, rresp |-> None, rupl |-> None,
              ke1 |-> None, ke2 |-> None, ke3 |-> None]
    /\ out = InitOut
    /\ \E keys \in {[sks |-> KeyGen(conf.Group, The(ServerKeyChoices)).sk,
                     pks |-> KeyGen(conf.Group, The(ServerKeyChoices)).pk,
                     idc |-> Nil, ids |-> Nil]} :
       \E reg \in {testRegistration(conf, The(Passwords), keys, The(ClientKeyChoices))} :
          /\ db = [sks |-> keys.sks, pks |-> keys.pks, idc |-> Nil, ids |-> Nil,
                   rec |-> None]
          /\ calc = [pwd |-> The(Passwords), pkc |-> reg.record[1].PublicKey,
                     reg |-> [idc |-> "nil", ids |-> "nil"], login |-> None]

\* The registration, with the identities the client gives in its Credentials.
RegisterIdentities ==
    /\ db.rec = None
    /\ \E toks \in [idc : IdentityTokens, ids : IdentityTokens] :
       \E reg \in {testRegistration(conf, calc.pwd,
                      [db EXCEPT !.idc = IdentityOf(toks.idc, calc.pkc, ClientIdent),
                                 !.ids = IdentityOf(toks.ids, db.pks, ServerIdent)],
                      The(ClientKeyChoices))} :
          /\ reg.err = NoErr
          /\ db' = [db EXCEPT !.rec = reg.record]
          /\ calc' = [calc EXCEPT !.reg = toks]
    /\ UNCHANGED <<conf, cli, srv, net, out>>

\* A login: c names the identities the client passes to Finish, s those the
\* server holds in the record and passes to Init.
LoginIdentities ==
    /\ db.rec # None
    /\ calc.login = None
    /\ \E c \in [idc : IdentityTokens, ids : IdentityTokens],
          s \in [idc : IdentityTokens, ids : IdentityTokens] :
       \E x \in {ClientInit(NewClient(conf), calc.pwd, The(LoginBlindChoices), 2,
                            Nonce(cli.p, 31))} :
       \E i \in {ServerInit(NewServer(conf), x.msg,
                            IdentityOf(s.ids, db.pks, ServerIdent),
                            db.sks, db.pks, OprfSeed,
                            [db.rec[1] EXCEPT !.ClientIdentity =
                                 IdentityOf(s.idc, calc.pkc, ClientIdent)],
                            [maskingNonce |-> Nonce(srv.p, 10), esk |-> 3,
                             nonce |-> Nonce(srv.p, 21)])} :
       \E f \in {IF i.err # NoErr
                 THEN [err |-> i.err, ke3 |-> None, exportKey |-> Nil, c |-> x.c]
                 ELSE ClientFinish(x.c, IdentityOf(c.idc, calc.pkc, ClientIdent),
                                   IdentityOf(c.ids, db.pks, ServerIdent),
                                   i.ke2[1])} :
          calc' = [calc EXCEPT !.login =
                      Some([c |-> c, s |-> s, ke1 |-> x.msg, initErr |-> i.err,
                            ke2 |-> i.ke2, finErr |-> f.err, ke3 |-> f.ke3,
                            clientKey |-> ClientSessionKey(f.c),
                            serverKey |-> ServerSessionKey(i.s),
                            serverFinish |-> IF f.err # NoErr THEN <<"not called">>
                                             ELSE ServerFinish(i.s, f.ke3[1])])]
    /\ UNCHANGED <<conf, cli, srv, net, db, out>>

NextIdentities == RegisterIdentities \/ LoginIdentities

SpecIdentities == InitIdentities /\ [][NextIdentities]_vars

\* C30 as stated: Server.Init replaces a nil client identity by the record's
\* client public key and a nil server identity by the server public key; a
\* login where one side passes nil and the other the public keys (or both
\* nil) succeeds with equal session keys, and a login where the two sides
\* use different identities fails at the client's check of the server MAC.
C30_IdentityDefaultingAsStated ==
    \A l \in {calc.login[j] : j \in 1..Len(calc.login)} :
       /\ l.initErr = NoErr
       /\ (Eff(l.s) = Eff(l.c))
             => /\ l.finErr = NoErr
                /\ l.serverFinish = NoErr
                /\ l.clientKey = l.serverKey
       /\ (Eff(l.s) # Eff(l.c))
             => l.finErr = <<" AKE finalization", "invalid server mac">>

\* C30, with the identities of the registration taken into account:
\* Server.Init answers for nil identities as for the public keys given
\* explicitly.  When the client passes to Finish the identities of its
\* registration (nil standing for the public keys), the login succeeds with
\* equal session keys if the server's identities are the same, and fails at
\* the client's check of the server MAC if they differ.  When the client
\* passes other identities than those of its registration, the login fails
\* before that, at the authentication tag of the envelope.
C30_IdentityDefaulting ==
    \A l \in {calc.login[j] : j \in 1..Len(calc.login)} :
       /\ l.initErr = NoErr
       /\ l.ke2 = ServerInit(NewServer(conf), l.ke1,
                     IdentityOf(Eff(l.s).ids, db.pks, ServerIdent),
                     db.sks, db.pks, OprfSeed,
                     [db.rec[1] EXCEPT !.ClientIdentity =
                          IdentityOf(Eff(l.s).idc, calc.pkc, ClientIdent)],
                     [maskingNonce |-> Nonce(srv.p, 10), esk |-> 3,
                      nonce |-> Nonce(srv.p, 21)]).ke2
       /\ (Eff(l.c) = Eff(calc.reg) /\ Eff(l.s) = Eff(l.c))
             => /\ l.finErr = NoErr
                /\ l.serverFinish = NoErr
                /\ l.clientKey # Nil
                /\ l.clientKey = l.serverKey
       /\ (Eff(l.c) = Eff(calc.reg) /\ Eff(l.s) # Eff(l.c))
             => /\ l.finErr = <<" AKE finalization", "invalid server mac">>
                /\ l.ke3 = None
       /\ (Eff(l.c) # Eff(calc.reg))
             => /\ l.finErr = <<"recover envelope",
                                "invalid envelope authentication tag">>
                /\ l.ke3 = None

\* Registered without identities, the server has passed nil identities and
\* the client the two public keys: the login has succeeded.
C30_Witness ==
    /\ calc.login # None
    /\ calc.reg = [idc |-> "nil", ids |-> "nil"]
    /\ calc.login[1].s = [idc |-> "nil", ids |-> "nil"]
    /\ calc.login[1].c = [idc |-> "pk", ids |-> "pk"]
    /\ calc.login[1].finErr = NoErr
    /\ calc.login[1].serverFinish = NoErr
    /\ calc.login[1].clientKey # Nil
    /\ calc.login[1].clientKey = calc.login[1].serverKey

(***************************************************************************)
(* Instances and the Configuration they are made from.  conf is the        *)
(* application's Configuration, whose fields the application may change;   *)
(* calc.insts lists the instances made so far, each with the Configuration *)
(* as it was when the instance was made.                                   *)
(***************************************************************************)
MaxInstances == 2

InitInstances ==
    /\ conf = DefaultConfiguration
    /\ cli = NewClient(conf)
    /\ srv = NewServer(conf)
    /\ net = [rreq |-> None, rresp |-> None, rupl |-> None,
              ke1 |-> None, ke2 |-> None, ke3 |-> None]
    /\ db = [sks |-> Nil, pks |-> Nil, idc |-> Nil, ids |-> Nil, rec |-> None]
    /\ out = InitOut
    /\ calc = [insts |-> <<>>]

\* The application changes a field of its Configuration.
SetConfiguration ==
    /\ \E c \in {[conf EXCEPT !.Mode = m] : m \in {Internal, External}}
            \cup {[conf EXCEPT !.NonceLen = n] : n \in {16, 32}}
            \cup {[conf EXCEPT !.Group = g[1], !.KDF = g[2], !.MAC = g[2], !.Hash = g[2]]
                     : g \in {<<"RistrettoSha512", "SHA512">>,
                              <<"P256Sha256", "SHA256">>}} :
          /\ c # conf
          /\ conf' = c
    /\ UNCHANGED <<cli, srv, net, db, out, calc>>

\* NewServer(nil) or conf.Server().
NewServerCall ==
    /\ Len(calc.insts) < MaxInstances
    /\ \E nil \in BOOLEAN :
          calc' = [calc EXCEPT !.insts =
                      Append(@, [side |-> server, nil |-> nil, made |-> conf,
                                 mode |-> Internal,
                                 inst |-> NewServer(IF nil THEN Nil ELSE conf)])]
    /\ UNCHANGED <<conf, cli, srv, net, db, out>>

\* NewClient(nil) or conf.Client().
NewClientCall ==
    /\ Len(calc.insts) < MaxInstances
    /\ \E nil \in BOOLEAN :
       \E c \in {NewClient(IF nil THEN Nil ELSE conf)} :
          calc' = [calc EXCEPT !.insts =
                      Append(@, [side |-> client, nil |-> nil, made |-> conf,
                                 mode |-> c.mode,
                                 inst |-> [p |-> c.p]])]
    /\ UNCHANGED <<conf, cli, srv, net, db, out>>

NextInstances == SetConfiguration \/ NewServerCall \/ NewClientCall

SpecInstances == InitInstances /\ [][NextInstances]_vars

MadeFrom(e) == IF e.nil THEN DefaultConfiguration ELSE conf

\* C38: the parameters of an instance are a snapshot taken at construction:
\* changing a field of the Configuration afterwards changes neither the
\* EnvelopeSize nor the NonceLen nor the group of the instance, and an
\* instance made afterwards has the new values.
C38_ParametersSnapshot ==
    \A i \in 1..Len(calc.insts) :
    \A e \in {calc.insts[i]} :
    \A p \in {ParametersOf(e.inst, MadeFrom(e))} :
       /\ p = toInternal(IF e.nil THEN DefaultConfiguration ELSE e.made)
       /\ ~e.nil => /\ p.EnvelopeSize = e.made.NonceLen + HashSize(e.made.MAC)
                                         + (IF e.made.Mode = External
                                            THEN ScalarLength(e.made.Group) ELSE 0)
                    /\ p.NonceLen = e.made.NonceLen
                    /\ p.Group = e.made.Group

\* A Server made in Internal mode keeps its envelope size after the Mode of
\* the Configuration has been set to External, and a Server made after the
\* change has the larger one.
C38_Witness ==
    /\ Len(calc.insts) = 2
    /\ ~calc.insts[1].nil /\ ~calc.insts[2].nil
    /\ calc.insts[1].made.Mode = Internal
    /\ calc.insts[2].made.Mode = External
    /\ conf.Mode = External
    /\ calc.insts[1].made.NonceLen = calc.insts[2].made.NonceLen
    /\ calc.insts[1].made.Group = calc.insts[2].made.Group
    /\ ParametersOf(calc.insts[1].inst, conf).EnvelopeSize
          < ParametersOf(calc.insts[2].inst, conf).EnvelopeSize

\* C32: a Server can be reused: the KE2, the expected client MAC and the
\* session key of a Server.Init are those a new Server gives for the same
\* inputs and ephemeral values, whatever the instance has run before, and a
\* login on instances that have run a login before succeeds with matching
\* session keys.
C32_ServerReusable ==
    \A n \in 1..Len(calc.sessions) :
    \A se \in {calc.sessions[n]} :
    \A i \in {ServerInit(NewServer(conf), se.ke1, db.ids, db.sks, db.pks, OprfSeed,
                         db.rec[1],
                         [maskingNonce |-> Nonce(srv.p, 10), esk |-> se.rnd.eskS,
                          nonce |-> Nonce(srv.p, 20 + se.rnd.nonceS)])} :
       /\ se.initErr = NoErr
       /\ se.ke2 = i.ke2
       /\ se.expectedMac = ServerExpectedMAC(i.s)
       /\ se.serverKey = ServerSessionKey(i.s)
       /\ se.finErr = NoErr
       /\ se.serverFinish = NoErr
       /\ se.clientKey = se.serverKey

(***************************************************************************)
(* Server.Init called several times on one Server, with valid inputs or    *)
(* with one input made invalid.                                            *)
(***************************************************************************)
\* What a Server exposes of its AKE state.
Exposed(s) ==
    [mac |-> ServerExpectedMAC(s), key |-> ServerSessionKey(s),
     state |-> SerializeState(s)]

InitFrame ==
    /\ conf \in {[DefaultConfiguration EXCEPT !.Mode = m] : m \in {Internal, External}}
    /\ cli = NewClient(conf)
    /\ srv = NewServer(conf)
    /\ net = [rreq |-> None, rresp |-> None, rupl |-> None,
              ke1 |-> None, ke2 |-> None, ke3 |-> None]
    /\ out = InitOut
    /\ \E keys \in {[sks |-> KeyGen(conf.Group, The(ServerKeyChoices)).sk,
                     pks |-> KeyGen(conf.Group, The(ServerKeyChoices)).pk,
                     idc |-> ClientIdent, ids |-> ServerIdent]} :
       \E reg \in {testRegistration(conf, The(Passwords), keys, The(ClientKeyChoices))} :
          /\ db = [sks |-> keys.sks, pks |-> keys.pks, idc |-> keys.idc,
                   ids |-> keys.ids, rec |-> reg.record]
          /\ calc = [pwd |-> The(Passwords), calls |-> <<>>]

\* server.Init on the same Server: kind names the input that is invalid.
InitCall ==
    /\ Len(calc.calls) < MaxLogins + 1
    /\ \E kind \in {"ok", "pks", "sks", "blinded", "epk", "pkc"}, eskS \in {3, 5} :
       \E x \in {ClientInit(NewClient(conf), calc.pwd, The(LoginBlindChoices), 2,
                            Nonce(cli.p, 31))} :
       \E i \in {ServerInit(srv,
                    [x.msg EXCEPT
                        !.Data = IF kind = "blinded" THEN BadElement(conf.Group) ELSE @,
                        !.EpkU = IF kind = "epk" THEN BadElement(conf.Group) ELSE @],
                    db.ids,
                    IF kind = "sks"
                    THEN Bytes(<<"badsc", conf.Group>>, ScalarLength(conf.Group))
                    ELSE db.sks,
                    IF kind = "pks" THEN BadElement(conf.Group) ELSE db.pks,
                    OprfSeed,
                    [db.rec[1] EXCEPT
                        !.PublicKey = IF kind = "pkc" THEN BadElement(conf.Group) ELSE @],
                    [maskingNonce |-> Nonce(srv.p, 10), esk |-> eskS,
                     nonce |-> Nonce(srv.p, 21)])} :
          /\ (kind # "ok") => eskS = 3
          /\ srv' = i.s
          /\ calc' = [calc EXCEPT !.calls =
                         Append(@, [kind |-> kind, eskS |-> eskS, err |-> i.err,
                                    before |-> Exposed(srv),
                                    after |-> Exposed(i.s)])]
    /\ UNCHANGED <<conf, cli, net, db, out>>

SpecInitFrame == InitFrame /\ [][InitCall]_vars

\* C33: a Server.Init that returns an error leaves the AKE state of the
\* server as it was: ExpectedMAC(), SessionKey() and SerializeState() return
\* after the call what they returned before it, so that a failing Init after
\* a successful one still exposes the values of the earlier session.
C33_FailedInitFrame ==
    /\ \A n \in 1..Len(calc.calls) :
          /\ (calc.calls[n].kind # "ok") <=> (calc.calls[n].err # NoErr)
          /\ (calc.calls[n].err # NoErr)
                => calc.calls[n].after = calc.calls[n].before
          /\ (calc.calls[n].err = NoErr)
                => /\ calc.calls[n].after.mac # Nil
                   /\ calc.calls[n].after.key # Nil
                   /\ calc.calls[n].after.state
                         = Concat(calc.calls[n].after.mac, calc.calls[n].after.key)
    /\ (Len(calc.calls) > 0) => Exposed(srv) = calc.calls[Len(calc.calls)].after

\* A successful Init followed by one failing in the AKE (the client's
\* ephemeral public key does not decode): the server still exposes the
\* expected MAC and the session key of the first.
C33_Witness ==
    /\ Len(calc.calls) = 2
    /\ calc.calls[1].kind = "ok"
    /\ calc.calls[2].kind = "epk"
    /\ calc.calls[2].err = <<" AKE response", "decoding peer ephemeral public key",
                             "could not decode element">>
    /\ Exposed(srv) = calc.calls[1].after
    /\ Exposed(srv).key # Nil

(***************************************************************************)
(* Two login sessions of one user, each on a Client and a Server of its    *)
(* own, and a KE3 handed to a Server that is not the one it was made for.  *)
(***************************************************************************)
InitCross ==
    /\ conf \in {[DefaultConfiguration EXCEPT !.Mode = m] : m \in {Internal, External}}
    /\ cli = NewClient(conf)
    /\ srv = NewServer(conf)
    /\ net = [rreq |-> None, rresp |-> None, rupl |-> None,
              ke1 |-> None, ke2 |-> None, ke3 |-> None]
    /\ out = InitOut
    /\ \E keys \in {[sks |-> KeyGen(conf.Group, The(ServerKeyChoices)).sk,
                     pks |-> KeyGen(conf.Group, The(ServerKeyChoices)).pk,
                     idc |-> ClientIdent, ids |-> ServerIdent]} :
       \E reg \in {testRegistration(conf, The(Passwords), keys, The(ClientKeyChoices))} :
          /\ db = [sks |-> keys.sks, pks |-> keys.pks, idc |-> keys.idc,
                   ids |-> keys.ids, rec |-> reg.record]
          /\ calc = [pwd |-> The(Passwords), a |-> None, b |-> None, fin |-> None]

\* Session a or b runs up to the client's KE3; the server awaits it.
OpenSession ==
    /\ calc.fin = None
    /\ \E which \in {"a", "b"}, rnd \in LoginSamples :
       \E x \in {ClientInit(NewClient(conf), calc.pwd, The(LoginBlindChoices),
                            rnd.eskC, Nonce(cli.p, 30 + rnd.nonceU))} :
       \E i \in {ServerInit(NewServer(conf), x.msg, db.ids, db.sks, db.pks, OprfSeed,
                            db.rec[1],
                            [maskingNonce |-> Nonce(srv.p, 10), esk |-> rnd.eskS,
                             nonce |-> Nonce(srv.p, 20 + rnd.nonceS)])} :
       \E f \in {ClientFinish(x.c, db.idc, db.ids, i.ke2[1])} :
       \E se \in {Some([rnd |-> rnd, s |-> i.s, initErr |-> i.err, ke2 |-> i.ke2,
                        finErr |-> f.err, ke3 |-> f.ke3])} :
          /\ i.err = NoErr
          /\ IF which = "a"
             THEN calc.a = None /\ calc' = [calc EXCEPT !.a = se]
             ELSE calc.a # None /\ calc.b = None /\ calc' = [calc EXCEPT !.b = se]
    /\ UNCHANGED <<conf, cli, srv, net, db, out>>

\* server.Finish of session "to" on a KE3 taken from session "from": the
\* client's KE3 of that session, or a KE3 carrying the Mac of its KE2.
FinishWith ==
    /\ calc.a # None
    /\ calc.b # None
    /\ calc.fin = None
    /\ \E from \in {"a", "b"}, to \in {"a", "b"}, kind \in {"ke3", "ke2mac"} :
       \E sf \in {IF from = "a" THEN calc.a[1] ELSE calc.b[1]},
          st \in {IF to = "a" THEN calc.a[1] ELSE calc.b[1]} :
       \E ke3 \in {IF kind = "ke3" THEN sf.ke3[1] ELSE [Mac |-> sf.ke2[1].Mac]} :
          calc' = [calc EXCEPT !.fin =
                      Some([from |-> from, to |-> to, kind |-> kind,
                            err |-> ServerFinish(st.s, ke3)])]
    /\ UNCHANGED <<conf, cli, srv, net, db, out>>

NextCross == OpenSession \/ FinishWith

SpecCross == InitCross /\ [][NextCross]_vars

\* C34: the client MAC of one session is not accepted in another: when two
\* successful Server.Init calls of the same user differ in the client nonce,
\* the server nonce or an ephemeral public key, the KE3 the client made for
\* one makes Server.Finish of the other return ErrAkeInvalidClientMac.
C34_ClientMacBound ==
    (calc.fin # None /\ calc.fin[1].kind = "ke3")
       => /\ calc.a[1].finErr = NoErr /\ calc.b[1].finErr = NoErr
          /\ (calc.fin[1].from = calc.fin[1].to) => calc.fin[1].err = NoErr
          /\ (calc.fin[1].from # calc.fin[1].to /\ calc.a[1].rnd # calc.b[1].rnd)
                => calc.fin[1].err = ErrAkeInvalidClientMac

\* Two sessions that differ in the client's nonce only; the KE3 of the first
\* has been refused by the Server of the second.
C34_Witness ==
    /\ calc.fin # None
    /\ calc.fin[1].kind = "ke3"
    /\ calc.fin[1].from = "a" /\ calc.fin[1].to = "b"
    /\ calc.a[1].rnd = [eskC |-> 2, eskS |-> 3, nonceU |-> 1, nonceS |-> 1]
    /\ calc.b[1].rnd = [eskC |-> 2, eskS |-> 3, nonceU |-> 2, nonceS |-> 1]
    /\ calc.fin[1].err = ErrAkeInvalidClientMac

\* C35: the server MAC cannot be reflected as a client MAC: the two MAC keys
\* of a session are derived under different labels and the two MACs cover
\* different transcripts, so that a KE3 whose Mac is a copy of the Mac of
\* that session's KE2 is rejected by Server.Finish.
C35_NoReflection ==
    /\ \A keys \in {deriveKeys(srv.p.KDF, Str("ikm"), Str("preamble"))} :
          keys.serverMacKey # keys.clientMacKey
    /\ \A se \in {calc.a[j] : j \in 1..Len(calc.a)} \cup {calc.b[j] : j \in 1..Len(calc.b)} :
          /\ se.ke2[1].Mac # ServerExpectedMAC(se.s)
          /\ se.ke3[1].Mac = ServerExpectedMAC(se.s)
          /\ se.ke3[1].Mac # se.ke2[1].Mac
    /\ (calc.fin # None /\ calc.fin[1].kind = "ke2mac")
          => calc.fin[1].err = ErrAkeInvalidClientMac

\* The Mac of the KE2 of session b has been sent back to the Server of
\* session b and refused.
C35_Witness ==
    /\ calc.fin # None
    /\ calc.fin[1].kind = "ke2mac"
    /\ calc.fin[1].from = "b" /\ calc.fin[1].to = "b"
    /\ calc.fin[1].err = ErrAkeInvalidClientMac

(***************************************************************************)
(* The KE2 of Server.Init on the wire, over configurations that differ in  *)
(* group, hash functions, mode and nonce length.                           *)
(***************************************************************************)
InitKE2 ==
    /\ conf \in {[c EXCEPT !.MAC = h] : c \in confs, h \in {"SHA256", "SHA512"}}
    /\ cli = NewClient(conf)
    /\ srv = NewServer(conf)
    /\ net = [rreq |-> None, rresp |-> None, rupl |-> None,
              ke1 |-> None, ke2 |-> None, ke3 |-> None]
    /\ db = [sks |-> KeyGen(conf.Group, The(ServerKeyChoices)).sk,
             pks |-> KeyGen(conf.Group, The(ServerKeyChoices)).pk,
             idc |-> ClientIdent, ids |-> ServerIdent, rec |-> None]
    /\ out = InitOut
    /\ calc = [pwd |-> The(Passwords), forced |-> FALSE, err |-> NoErr,
               ke2 |-> None, bytes |-> Nil]

\* The registration: the record holds what DeserializeRegistrationUpload
\* returned for the client's upload.
RegisterUpload ==
    /\ db.rec = None
    /\ \E reg \in {testRegistration(conf, calc.pwd, db, The(ClientKeyChoices))} :
          /\ reg.err = NoErr
          /\ db' = [db EXCEPT !.rec = reg.record]
    /\ UNCHANGED <<conf, cli, srv, net, out, calc>>

\* server.Init and the serialization of its KE2; the masking nonce is sampled
\* or forced by the record to five bytes.
InitForKE2 ==
    /\ db.rec # None
    /\ calc.ke2 = None
    /\ calc.err = NoErr
    /\ \E forced \in BOOLEAN, wire \in BOOLEAN, eskS \in {3, 5} :
       \E x \in {ClientInit(cli, calc.pwd, The(LoginBlindChoices), 2,
                            IF wire THEN Nonce(cli.p, 31)
                            ELSE Bytes(<<"nonce", 32>>, 5))} :
       \E m4 \in {IF wire THEN DeserializeKE1(srv.p, KE1Serialize(x.msg)).msg[1]
                  ELSE x.msg} :
       \E i \in {ServerInit(srv, m4, db.ids, db.sks, db.pks, OprfSeed,
                            [db.rec[1] EXCEPT !.TestMaskNonce =
                                 IF forced THEN Bytes(<<"nonce", 33>>, 5) ELSE Nil],
                            [maskingNonce |-> Nonce(srv.p, 10), esk |-> eskS,
                             nonce |-> Nonce(srv.p, 21)])} :
          /\ srv' = i.s
          /\ calc' = [calc EXCEPT !.forced = forced, !.err = i.err,
                                  !.ke2 = i.ke2,
                                  !.bytes = IF i.err = NoErr
                                            THEN KE2Serialize(i.ke2[1]) ELSE Nil]
    /\ UNCHANGED <<conf, cli, net, db, out>>

NextKE2 == RegisterUpload \/ InitForKE2

SpecKE2 == InitKE2 /\ [][NextKE2]_vars

\* C36: the KE2 of a successful Server.Init, for a record from
\* DeserializeRegistrationUpload and without a forced masking nonce,
\* serializes to OPRFPointLength + 2 NonceLen + 2 AkePointLength +
\* EnvelopeSize + MAC size bytes, in the order evaluated element, masking
\* nonce, masked response, server nonce, server ephemeral public key, server
\* MAC, and DeserializeKE2 of these bytes returns the same KE2 field by
\* field.
C36_KE2Wire ==
    (calc.ke2 # None /\ ~calc.forced)
       => \A p \in {srv.p}, m \in {calc.ke2[1]} :
          \A o1 \in {p.OPRFPointLength} :
          \A o2 \in {o1 + p.NonceLen} :
          \A o3 \in {o2 + p.AkePointLength + p.EnvelopeSize} :
          \A o4 \in {o3 + p.NonceLen} :
          \A o5 \in {o4 + p.AkePointLength} :
             /\ calc.err = NoErr
             /\ BLen(calc.bytes) = p.OPRFPointLength + 2 * p.NonceLen
                                      + 2 * p.AkePointLength + p.EnvelopeSize
                                      + HashSize(p.MAC)
             /\ Take(calc.bytes, o1) = m.Data
             /\ Slice(calc.bytes, o1, o2) = m.MaskingNonce
             /\ Slice(calc.bytes, o2, o3) = m.MaskedResponse
             /\ Slice(calc.bytes, o3, o4) = m.NonceS
             /\ Slice(calc.bytes, o4, o5) = m.EpkS
             /\ Drop(calc.bytes, o5) = m.Mac
             /\ BLen(m.Mac) = HashSize(p.MAC)
             /\ DeserializeKE2(cli.p, calc.bytes) = [err |-> NoErr, msg |-> Some(m)]

\* A KE2 under P-256 in External mode with SHA-512 as MAC and a nonce length
\* of 16: 33 + 16 + (33 + 16 + 64 + 32) + 16 + 33 + 64 bytes.
C36_Witness ==
    /\ calc.ke2 # None
    /\ ~calc.forced
    /\ conf.Group = "P256Sha256" /\ conf.Mode = External
    /\ conf.MAC = "SHA512" /\ conf.NonceLen = 16
    /\ BLen(calc.bytes) = 307
    /\ DeserializeKE2(cli.p, calc.bytes).err = NoErr

(***************************************************************************)
(* A configuration sent to the peer in its encoding.  The protocol part of *)
(* the model names the identifiers of a Configuration, its encoding holds  *)
(* their byte values: ByteOf and IdentifierOf go from one to the other.    *)
(* The values of the hash and MHF identifiers are those of the library     *)
(* that defines them; what matters here is that they are distinct.         *)
(***************************************************************************)
ByteOf(name) ==
    CASE name = "RistrettoSha512" -> RistrettoSha512
      [] name = "P256Sha256" -> P256Sha256
      [] name = "P384Sha512" -> P384Sha512
      [] name = "P521Sha512" -> P521Sha512
      [] name = "SHA256" -> 1
      [] name = "SHA512" -> 2
      [] name = "Scrypt" -> 2

IdentifierOf(kind, b) ==
    CHOOSE name \in (CASE kind = "group" -> {"RistrettoSha512", "P256Sha256",
                                             "P384Sha512", "P521Sha512"}
                       [] kind = "hash" -> {"SHA256", "SHA512"}
                       [] OTHER -> {"Scrypt"}) : ByteOf(name) = b

\* The configuration c with the byte values of its identifiers.
Encoded(c) ==
    [Group |-> ByteOf(c.Group), KDF |-> ByteOf(c.KDF), MAC |-> ByteOf(c.MAC),
     Hash |-> ByteOf(c.Hash), MHF |-> ByteOf(c.MHF), Mode |-> c.Mode,
     Context |-> c.Context, NonceLen |-> c.NonceLen]

\* The configuration of byte values n with its identifiers named.
Decoded(n) ==
    [Group |-> IdentifierOf("group", n.Group), KDF |-> IdentifierOf("hash", n.KDF),
     MAC |-> IdentifierOf("hash", n.MAC), Hash |-> IdentifierOf("hash", n.Hash),
     MHF |-> IdentifierOf("mhf", n.MHF), Mode |-> n.Mode,
     Context |-> n.Context, NonceLen |-> n.NonceLen]

InitContext ==
    /\ conf \in {[c EXCEPT !.MAC = h] : c \in confs, h \in {"SHA256", "SHA512"}}
    /\ cli = NewClient(conf)
    /\ srv = NewServer(conf)
    /\ net = [rreq |-> None, rresp |-> None, rupl |-> None,
              ke1 |-> None, ke2 |-> None, ke3 |-> None]
    /\ db = [sks |-> KeyGen(conf.Group, The(ServerKeyChoices)).sk,
             pks |-> KeyGen(conf.Group, The(ServerKeyChoices)).pk,
             idc |-> ClientIdent, ids |-> ServerIdent,
             rec |-> testRegistration(conf, The(Passwords), [sks |-> KeyGen(conf.Group, The(ServerKeyChoices)).sk, pks |-> KeyGen(conf.Group, The(ServerKeyChoices)).pk, idc |-> ClientIdent, ids |-> ServerIdent, rec |-> None], The(ClientKeyChoices)).record]
    /\ out = InitOut
    /\ calc = [d |-> None, side |-> "none", login |-> None]

\* One side is built anew from DeserializeConfiguration(conf.Serialize()),
\* the other stays the instance of conf; with side "both", both are rebuilt
\* and with "neither", none.
Reencode ==
    /\ calc.d = None
    /\ \E side \in {"client", "server", "both", "neither"} :
       \E e \in {DeserializeConfiguration(ConfigurationSerialize(Encoded(conf)).b)} :
       \E d \in {Decoded(e.c[1])} :
          /\ e.err = NoErr
          /\ cli' = IF side \in {"client", "both"} THEN NewClient(d) ELSE cli
          /\ srv' = IF side \in {"server", "both"} THEN NewServer(d) ELSE srv
          /\ calc' = [calc EXCEPT !.d = Some(d), !.side = side]
    /\ UNCHANGED <<conf, net, db, out>>

\* A login of the registered client between the two instances.
ContextLogin ==
    /\ calc.d # None
    /\ calc.login = None
    /\ \E eskC \in {2, 4}, eskS \in {3, 5} :
       \E x \in {ClientInit(cli, The(Passwords), The(LoginBlindChoices), eskC,
                            Nonce(cli.p, 31))} :
       \E m4 \in {DeserializeKE1(srv.p, KE1Serialize(x.msg))} :
       \E i \in {IF m4.err # NoErr THEN [err |-> m4.err, s |-> srv, ke2 |-> None]
                 ELSE ServerInit(srv, m4.msg[1], db.ids, db.sks, db.pks, OprfSeed,
                                 db.rec[1],
                                 [maskingNonce |-> Nonce(srv.p, 10), esk |-> eskS,
                                  nonce |-> Nonce(srv.p, 21)])} :
       \E m5 \in {IF i.err # NoErr THEN [err |-> i.err, msg |-> None]
                  ELSE DeserializeKE2(cli.p, KE2Serialize(i.ke2[1]))} :
       \E f \in {IF m5.err # NoErr
                 THEN [err |-> m5.err, c |-> x.c, ke3 |-> None, exportKey |-> Nil]
                 ELSE ClientFinish(x.c, db.idc, db.ids, m5.msg[1])} :
       \E m6 \in {IF f.err # NoErr THEN [err |-> f.err, msg |-> None]
                  ELSE DeserializeKE3(srv.p, KE3Serialize(f.ke3[1]))} :
       \E err \in {IF m6.err # NoErr THEN m6.err
                   ELSE ServerFinish(i.s, m6.msg[1])} :
          /\ cli' = f.c
          /\ srv' = i.s
          /\ calc' = [calc EXCEPT !.login =
                        Some([err |-> err,
                              serverMac |-> IF m5.err = NoErr THEN m5.msg[1].Mac ELSE Nil,
                              clientMac |-> IF m6.err = NoErr THEN m6.msg[1].Mac ELSE Nil,
                              expectedMac |-> ServerExpectedMAC(i.s),
                              clientKey |-> ClientSessionKey(f.c),
                              serverKey |-> ServerSessionKey(i.s)])]
    /\ UNCHANGED <<conf, net, db, out>>

NextContext == Reencode \/ ContextLogin

SpecContext == InitContext /\ [][NextContext]_vars

\* The login between the two instances completed: no error on either side,
\* the client's MAC is the one the server expected and both hold the same
\* session key.
Completed(l) ==
    /\ l.err = NoErr
    /\ l.clientMac # Nil /\ l.clientMac = l.expectedMac
    /\ l.clientKey # Nil /\ l.clientKey = l.serverKey

\* C37: the Context is not part of the configuration's encoding:
\* DeserializeConfiguration(c.Serialize()) has an empty Context and the other
\* fields of c, in seven bytes, so an instance built from the deserialized
\* configuration completes a login with an instance built from c only when
\* c.Context is empty (and then it does).
C37_ContextNotEncoded ==
    calc.d # None
       => /\ Len(ConfigurationSerialize(Encoded(conf)).b) = confLength
          /\ ConfigurationSerialize(Encoded(conf)).b
               = ConfigurationSerialize(Encoded([conf EXCEPT !.Context = Nil])).b
          /\ calc.d[1].Context = Nil
          /\ calc.d[1] = [conf EXCEPT !.Context = Nil]
          /\ (calc.login # None /\ calc.side \in {"client", "server"})
               => (Completed(calc.login[1]) <=> conf.Context = Nil)

\* With a context, the login of a client built from the deserialized
\* configuration with the server of the configuration fails on the server's
\* MAC.
C37_Witness ==
    /\ calc.login # None
    /\ conf.Context # Nil
    /\ calc.side = "client"
    /\ calc.login[1].err = <<" AKE finalization", "invalid server mac">>
    /\ calc.login[1].clientKey = Nil
====
